---- MODULE Spec2Model ----
(***************************************************************************)
(* Observability layer of POC-V1: the CloudWatch log/metric emitter        *)
(* (src/shared/cloudWatchLogger.js, lines 1-164), the winston logger with  *)
(* its context store (same file, lines 166-320) and the Fastify HTTP       *)
(* logging middleware (src/unnamed/part_003).                              *)
(*                                                                         *)
(* Every async function is modelled as a call frame with a program         *)
(* counter; one action runs a function from one suspension point (await)   *)
(* to the next, as the single-threaded event loop does.  A remote request  *)
(* is in flight from the step that sends it until the step in which the    *)
(* sink answers it and the awaiting function resumes.                      *)
(***************************************************************************)
EXTENDS Integers, Sequences, FiniteSets, TLC

\* ------------------------------------------------------------------ bounds
\* Number of emitter calls (logToCloudWatch / putMetric / initializeLogStream)
\* made during one process lifetime.
MaxCalls == 3
\* Number of emitter calls made one after the other in SpecSeq.
MaxSeqCalls == 2
\* Number of HTTP requests the server handles in SpecCtx.
MaxMetricCalls == 2
MaxStoreCalls == 3
MaxLogCalls == 2
MaxRequests == 2

CallIds == 1..MaxCalls
SeqCallIds == 1..MaxSeqCalls
RequestIds == 1..MaxRequests
MetricCallIds == 1..MaxMetricCalls

\* ------------------------------------------------------------- JS values
\* Identifiers (correlation ids, request ids, sequence tokens) are tuples, so
\* that null and the empty string are values of the same kind.
Unset == "<unset>"          \* an environment variable that is not set
Null == <<>>                \* JavaScript null / undefined
EmptyString == <<"">>       \* the string ""
Token(n) == <<"token", n>>  \* the opaque sequence token after n accepted appends
Uuid(n) == <<"uuid", n>>    \* the n-th value returned by uuidv4()
\* JavaScript truthiness of a string-or-null value
Truthy(v) == v # Null /\ v # EmptyString
NoMessage == "<no message>" \* an error object whose message is empty/undefined
NoError == "<no error>"     \* no error has been caught

\* A JSON object is a function from keys to values; EmptyObj is {}.
EmptyObj == [k \in {} |-> Null]
\* { ...base, ...over }: keys of over win on collision.
Spread(base, over) == over @@ base

\* ---------------------------------------------------------- input domains
EnabledValues == {"true", "false", Unset}
LogLevelValues == {Unset, "ERROR", "WARN", "INFO", "DEBUG"}
Levels == {"ERROR", "WARN", "INFO", "DEBUG"}
\* The message argument of the c-th call: every call logs its own message.
MessageOf(c) == <<"message", c>>
\* The metadata handleError passes to its log call (errorWrapper.js 33-40):
\* the error's own name and message among its keys.
HandleErrorMetadata == [name |-> "Error", message |-> <<"message", 0>>]
Metadatas == {EmptyObj, [correlationId |-> <<"cid", "X">>], HandleErrorMetadata,
              [level |-> "DEBUG", timestamp |-> "then"]}

\* Error messages the remote sink can answer with.
StaleMsg == "InvalidSequenceTokenException: The given sequenceToken is invalid"
ExistsMsg == "ResourceAlreadyExistsException"
NotFoundMsg == "ResourceNotFoundException"
NetworkMsg == "NetworkingError: connect ECONNREFUSED"
TransportErrors == {NetworkMsg}

VARIABLES
    env,                \* process.env: CLOUDWATCH_ENABLED, LOG_LEVEL, AWS_ENVIRONMENT
    logStreamReady,     \* cloudWatchLogger.js:21
    nextSequenceToken,  \* cloudWatchLogger.js:22
    calls,              \* call frames of the emitter's async functions
    sent,               \* per call: the remote commands it has sent, in order
    console,            \* the local console: per call, the lines it has written, in order
    sink,               \* the remote sink: log group, log stream, events, metrics
    currentCorrelationId, currentRequestId, currentUserId, \* cloudWatchLogger.js:175-177
    requests,           \* HTTP requests handled by the Fastify server
    uuidCount           \* number of uuidv4() values generated so far

emitterVars == <<logStreamReady, nextSequenceToken, calls, sent, sink>>
contextVars == <<currentCorrelationId, currentRequestId, currentUserId, requests, uuidCount>>
vars == <<env, logStreamReady, nextSequenceToken, calls, sent, console, sink,
          currentCorrelationId, currentRequestId, currentUserId, requests, uuidCount>>

\* ------------------------------------------------------------ environment
\* Variant: if (!process.env.CLOUDWATCH_ENABLED) return, any set value enables.
RemoteDisabledWhenUnset == env.CLOUDWATCH_ENABLED = Unset
\* process.env.CLOUDWATCH_ENABLED !== "true"
RemoteDisabled == env.CLOUDWATCH_ENABLED # "true"
\* process.env.AWS_ENVIRONMENT || "local-dev"
EnvironmentName == IF env.AWS_ENVIRONMENT = Unset THEN "local-dev" ELSE env.AWS_ENVIRONMENT
\* process.env.LOG_LEVEL || "INFO"
ConfiguredLogLevel == IF env.LOG_LEVEL = Unset THEN "INFO" ELSE env.LOG_LEVEL
\* const levels = { ERROR: 0, WARN: 1, INFO: 2, DEBUG: 3 }
levels == [ERROR |-> 0, WARN |-> 1, INFO |-> 2, DEBUG |-> 3]

\* Variant: >= in place of >, a record at the minimum severity is dropped.
BelowMinimumOrEqual(level) == levels[level] >= levels[ConfiguredLogLevel]
\* levels[level] > levels[logLevel]: the record is below the minimum severity
BelowMinimum(level) == levels[level] > levels[ConfiguredLogLevel]

\* Variant: the text looked for never occurs in the sink's error messages.
IsStaleTokenErrorNever(err) == err # NoMessage /\ err = "StaleSequenceToken"
\* Variant: error.message || ..., every error with a message counts as stale.
IsStaleTokenErrorAlways(err) == err # NoMessage \/ err = StaleMsg
\* error.message && error.message.includes("InvalidSequenceTokenException")
IsStaleTokenError(err) == err # NoMessage /\ err = StaleMsg

\* ------------------------------------------------------------ call frames
\* pc: the await the function is suspended at; level, entry: the level argument
\* and the logEntry (or metric datum) of the call; token: the sequenceToken sent;
\* error: the error the catch block has caught; streams: what the describe call
\* has returned; args: the arguments of a putMetric call.
NoStreams == [state |-> "none"]
IdleFrame == [pc |-> "idle", op |-> "none", level |-> "none", entry |-> EmptyObj,
              token |-> Null, error |-> NoError, streams |-> NoStreams,
              args |-> <<>>]

\* Variant: the describe call stands outside any inner try block.
GuardedAwaitsNoInnerTry == {"awaitCreateGroup", "awaitCreateStream", "awaitPut",
                            "awaitMetric"}
\* The awaits that stand inside a try block whose catch handles their rejection:
\* lines 31-38, 41-51, 113-134 (with 141-153 inside the handler) and 68-89.
GuardedAwaits == {"awaitCreateGroup", "awaitCreateStream", "awaitPut",
                  "awaitDescribe", "awaitMetric"}
Catches(await) == await \in GuardedAwaits
\* A rejection no catch handles ends the async function: its promise rejects.
Reject(c) == calls' = [calls EXCEPT ![c].pc = "rejected"]

\* The calls are numbered in the order of their invocation.
MayStart(c) == calls[c].pc = "idle" /\ (IF c = 1 THEN TRUE ELSE calls[c - 1].pc # "idle")

Goto(c, frame, pc) == calls' = [calls EXCEPT ![c] = [frame EXCEPT !.pc = pc]]
Send(c, cmd) == sent' = [sent EXCEPT ![c] = Append(@, cmd)]
Write(c, lines) == console' = [console EXCEPT ![c] = @ \o lines]
Line(chan, kind, text) == [chan |-> chan, kind |-> kind, text |-> text]

\* ------------------------------------------------------------- remote sink
\* The stream's current sequence token: none before the first accepted append.
UploadSequenceToken(s) == IF Len(s.events) = 0 THEN Null ELSE Token(Len(s.events))
EmptySink == [group |-> FALSE, stream |-> FALSE, events |-> <<>>, metrics |-> <<>>]

Ok(body) == [state |-> "ok", body |-> body]
Err(msg) == [state |-> "error", message |-> msg]
Outcome(r, s) == [resp |-> r, sink |-> s]
TransportFailures(s) == {Outcome(Err(e), s) : e \in TransportErrors}

\* cwLogsClient.send(new CreateLogGroupCommand(...)): what the sink may answer
CreateLogGroupOutcomes(s) ==
    TransportFailures(s) \cup
    {IF s.group THEN Outcome(Err(ExistsMsg), s)
     ELSE Outcome(Ok(Null), [s EXCEPT !.group = TRUE])}

\* cwLogsClient.send(new CreateLogStreamCommand(...))
CreateLogStreamOutcomes(s) ==
    TransportFailures(s) \cup
    {CASE ~s.group -> Outcome(Err(NotFoundMsg), s)
       [] s.stream -> Outcome(Err(ExistsMsg), s)
       [] OTHER -> Outcome(Ok(Null), [s EXCEPT !.stream = TRUE])}

\* cwLogsClient.send(new PutLogEventsCommand(...)): the append is accepted only
\* with the stream's current sequence token, and an accepted append advances
\* that token.
PutLogEventsOutcomes(s, c, logEntry, sequenceToken) ==
    TransportFailures(s) \cup
    {CASE ~s.stream -> Outcome(Err(NotFoundMsg), s)
       [] sequenceToken # UploadSequenceToken(s) -> Outcome(Err(StaleMsg), s)
       [] OTHER -> Outcome(Ok(Null),
                     [s EXCEPT !.events = Append(@, [call |-> c, message |-> logEntry])])}

\* cwLogsClient.send(new DescribeLogStreamsCommand(...))
DescribeLogStreamsOutcomes(s) ==
    TransportFailures(s) \cup
    {CASE ~s.group -> Outcome(Err(NotFoundMsg), s)
       [] s.stream -> Outcome(Ok(<<[uploadSequenceToken |-> UploadSequenceToken(s)]>>), s)
       [] OTHER -> Outcome(Ok(<<>>), s)}

\* cwClient.send(new PutMetricDataCommand(params))
PutMetricDataOutcomes(s, c, datum) ==
    TransportFailures(s) \cup
    {Outcome(Ok(Null), [s EXCEPT !.metrics = Append(@, [call |-> c, datum |-> datum])])}

\* ------------------------------------------------------ initializeLogStream
\* Lines 29-34: the first await of initializeLogStream, reached once the two
\* guards of lines 26-27 have let the call through.
BeginInitialize(c, frame) ==
    /\ Goto(c, frame, "awaitCreateGroup")
    /\ Send(c, "CreateLogGroup")

\* Lines 26-27: the guards of initializeLogStream
InitializeSkipped == RemoteDisabled \/ logStreamReady

\* initializeLogStream() called directly (it is exported).
InitializeLogStream(c) ==
    /\ MayStart(c)
    /\ UNCHANGED <<env, logStreamReady, nextSequenceToken, console, sink, contextVars>>
    /\ LET frame == [IdleFrame EXCEPT !.op = "init"]
       IN IF InitializeSkipped
          THEN Goto(c, frame, "done") /\ UNCHANGED sent
          ELSE BeginInitialize(c, frame)

\* Lines 32-47: CreateLogGroup returns; its error is swallowed, then
\* CreateLogStream is sent.
InitAfterCreateLogGroup(c) ==
    /\ calls[c].pc = "awaitCreateGroup"
    /\ UNCHANGED <<env, logStreamReady, nextSequenceToken, contextVars>>
    /\ \E o \in CreateLogGroupOutcomes(sink) :
        /\ sink' = o.sink
        /\ IF o.resp.state = "error" /\ ~Catches("awaitCreateGroup")
           THEN Reject(c) /\ UNCHANGED <<console, sent>>
           ELSE /\ Write(c, IF o.resp.state = "ok"
                            THEN <<Line("log", "created", "[CW] Created log group")>>
                            ELSE <<>>)
                /\ Goto(c, calls[c], "awaitCreateStream")
                /\ Send(c, "CreateLogStream")

\* Variant: the stream is marked ready only when it exists after the create calls.
MarkStreamReadyIfCreated == logStreamReady' = sink'.stream
\* logStreamReady = true (line 53)
MarkStreamReady == logStreamReady' = TRUE

\* Lines 42-57: CreateLogStream returns; its error is swallowed, the stream is
\* marked ready and initializeLogStream returns.
InitAfterCreateLogStream(c) ==
    /\ calls[c].pc = "awaitCreateStream"
    /\ UNCHANGED <<env, nextSequenceToken, sent, contextVars>>
    /\ \E o \in CreateLogStreamOutcomes(sink) :
        /\ sink' = o.sink
        /\ IF o.resp.state = "error" /\ ~Catches("awaitCreateStream")
           THEN Reject(c) /\ UNCHANGED <<console, logStreamReady>>
           ELSE /\ Write(c, IF o.resp.state = "ok"
                            THEN <<Line("log", "created", "[CW] Created log stream")>>
                            ELSE <<>>)
                /\ MarkStreamReady
                /\ Goto(c, calls[c], IF calls[c].op = "init" THEN "done" ELSE "awaitInit")

\* ---------------------------------------------------------- logToCloudWatch
\* The sequenceToken parameter of the PutLogEventsCommand (line 131).
PutSequenceToken == nextSequenceToken

\* Lines 121-133: send the record with the cached sequence token.
SendPutLogEvents(c, frame) ==
    /\ Goto(c, [frame EXCEPT !.token = PutSequenceToken], "awaitPut")
    /\ Send(c, "PutLogEvents")

\* Lines 100-105: JSON.stringify({ timestamp, level, message, ...metadata })
LogEntry(level, message, metadata) ==
    Spread([timestamp |-> "now", level |-> level, message |-> message], metadata)

\* Lines 110-111: the two early returns before any remote work.
RemoteGateClosed(level) == RemoteDisabled \/ BelowMinimum(level)

\* Variant: the line is not written at the call, only after the remote write.
RecordLineDeferred(logEntry) == <<>>
\* console.log(logEntry) (line 107)
RecordLine(logEntry) == <<Line("log", "record", logEntry)>>

\* Lines 95-133, up to the first await.
LogToCloudWatch(c, level, message, metadata) ==
    /\ MayStart(c)
    /\ UNCHANGED <<env, logStreamReady, nextSequenceToken, sink, contextVars>>
    /\ LET logEntry == LogEntry(level, message, metadata)
           frame == [IdleFrame EXCEPT !.op = "log", !.level = level, !.entry = logEntry]
       IN /\ Write(c, RecordLine(logEntry))
          /\ IF RemoteGateClosed(level)
             THEN Goto(c, frame, "done") /\ UNCHANGED sent
             ELSE IF ~logStreamReady
                  THEN BeginInitialize(c, frame)
                  ELSE SendPutLogEvents(c, frame)

\* Lines 116-133: `await initializeLogStream()` has resolved.
LogAfterInitialize(c) ==
    /\ calls[c].pc = "awaitInit"
    /\ UNCHANGED <<env, logStreamReady, nextSequenceToken, console, sink, contextVars>>
    /\ IF ~logStreamReady
       THEN Goto(c, calls[c], "done") /\ UNCHANGED sent
       ELSE SendPutLogEvents(c, calls[c])

\* console.error("[CW] Failed to send log:", error.message) (line 156)
FailedToSendLine(msg) == <<Line("error", "failed-to-send-log", msg)>>

\* Lines 121-157: PutLogEvents returns.
LogAfterPut(c) ==
    /\ calls[c].pc = "awaitPut"
    /\ UNCHANGED <<env, logStreamReady, contextVars>>
    /\ \E o \in PutLogEventsOutcomes(sink, c, calls[c].entry, calls[c].token) :
        /\ sink' = o.sink
        /\ IF o.resp.state = "ok"
           THEN /\ Goto(c, calls[c], "done")
                /\ UNCHANGED <<nextSequenceToken, sent, console>>
           ELSE IF ~Catches("awaitPut")
           THEN Reject(c) /\ UNCHANGED <<nextSequenceToken, sent, console>>
           ELSE IF IsStaleTokenError(o.resp.message)
                THEN /\ nextSequenceToken' = Null
                     /\ Goto(c, [calls[c] EXCEPT !.error = o.resp.message], "awaitDescribe")
                     /\ Send(c, "DescribeLogStreams")
                     /\ UNCHANGED console
                ELSE /\ Write(c, FailedToSendLine(o.resp.message))
                     /\ Goto(c, [calls[c] EXCEPT !.error = o.resp.message], "done")
                     /\ UNCHANGED <<nextSequenceToken, sent>>

\* Variant: the described token is never stored.
ResolvedTokenNotStored(r) == nextSequenceToken
\* Lines 148-153: the cached token after the describe call has returned.
ResolvedToken(r) ==
    IF r.state = "ok" /\ Len(r.body) > 0
    THEN r.body[1].uploadSequenceToken
    ELSE nextSequenceToken

\* Variant: the record is sent again once the token has been re-resolved.
LogAfterDescribeResend(c) ==
    /\ calls[c].pc = "awaitDescribe"
    /\ UNCHANGED <<env, logStreamReady, console, contextVars>>
    /\ \E o \in DescribeLogStreamsOutcomes(sink) :
        /\ sink' = o.sink
        /\ nextSequenceToken' = ResolvedToken(o.resp)
        /\ Goto(c, [calls[c] EXCEPT !.streams = o.resp,
                                    !.token = ResolvedToken(o.resp)], "awaitPut")
        /\ Send(c, "PutLogEvents")

\* Lines 142-157: DescribeLogStreams returns.
LogAfterDescribe(c) ==
    /\ calls[c].pc = "awaitDescribe"
    /\ UNCHANGED <<env, logStreamReady, sent, contextVars>>
    /\ \E o \in DescribeLogStreamsOutcomes(sink) :
        /\ sink' = o.sink
        /\ IF o.resp.state = "error" /\ ~Catches("awaitDescribe")
           THEN Reject(c) /\ UNCHANGED <<nextSequenceToken, console>>
           ELSE /\ nextSequenceToken' = ResolvedToken(o.resp)
                /\ Write(c, FailedToSendLine(calls[c].error))
                /\ Goto(c, [calls[c] EXCEPT !.streams = o.resp], "done")

\* ----------------------------------------------------------------- putMetric
\* unit = "Count" (default parameter, line 63)
UnitOrDefault(unit) == IF unit = Unset THEN "Count" ELSE unit

\* Variant: [...dimensions, { Name: "Environment", Value: ... }]
DimensionsEnvironmentLast(dimensions) ==
    dimensions \o <<[Name |-> "Environment", Value |-> EnvironmentName]>>
\* Lines 77-83: [{ Name: "Environment", Value: ... }, ...dimensions]
Dimensions(dimensions) ==
    <<[Name |-> "Environment", Value |-> EnvironmentName]>> \o dimensions

\* Lines 69-86: the MetricData entry
MetricDatum(metricName, value, unit, dimensions) ==
    [MetricName |-> metricName, Value |-> value, Unit |-> UnitOrDefault(unit),
     Dimensions |-> Dimensions(dimensions)]

\* The arguments of a putMetric call, as the caller passed them.
MetricArgs(metricName, value, unit, dimensions) ==
    [metricName |-> metricName, value |-> value, unit |-> unit, dimensions |-> dimensions]

\* Variant: a disabled call reports on the console that it skipped the metric.
PutMetricLogsWhenDisabled(c, metricName, value, unit, dimensions) ==
    /\ MayStart(c)
    /\ UNCHANGED <<env, logStreamReady, nextSequenceToken, sink, contextVars>>
    /\ LET frame == [IdleFrame EXCEPT !.op = "metric",
                         !.args = MetricArgs(metricName, value, unit, dimensions)]
       IN IF RemoteDisabled
          THEN /\ Goto(c, frame, "done")
               /\ Write(c, <<Line("log", "metric-skipped", metricName)>>)
               /\ UNCHANGED sent
          ELSE /\ Goto(c, [frame EXCEPT !.entry =
                              MetricDatum(metricName, value, unit, dimensions)],
                       "awaitMetric")
               /\ Send(c, "PutMetricData")
               /\ UNCHANGED console

\* Lines 60-88, up to the await.
PutMetric(c, metricName, value, unit, dimensions) ==
    /\ MayStart(c)
    /\ UNCHANGED <<env, logStreamReady, nextSequenceToken, console, sink, contextVars>>
    /\ LET frame == [IdleFrame EXCEPT !.op = "metric",
                         !.args = MetricArgs(metricName, value, unit, dimensions)]
       IN IF RemoteDisabled
          THEN Goto(c, frame, "done") /\ UNCHANGED sent
          ELSE /\ Goto(c, [frame EXCEPT !.entry =
                              MetricDatum(metricName, value, unit, dimensions)],
                       "awaitMetric")
               /\ Send(c, "PutMetricData")

\* console.error("[CW] Metric error:", error.message) (line 90)
MetricErrorLine(msg) == <<Line("error", "metric-error", msg)>>

\* Lines 88-92: PutMetricData returns.
PutMetricAfterSend(c) ==
    /\ calls[c].pc = "awaitMetric"
    /\ UNCHANGED <<env, logStreamReady, nextSequenceToken, sent, contextVars>>
    /\ \E o \in PutMetricDataOutcomes(sink, c, calls[c].entry) :
        /\ sink' = o.sink
        /\ IF o.resp.state = "ok"
           THEN Goto(c, calls[c], "done") /\ UNCHANGED console
           ELSE IF ~Catches("awaitMetric")
           THEN Reject(c) /\ UNCHANGED console
           ELSE /\ Write(c, MetricErrorLine(o.resp.message))
                /\ Goto(c, [calls[c] EXCEPT !.error = o.resp.message], "done")

\* ------------------------------------------------- context store (175-195)
\* Variant: the id is kept once set (the first caller's id wins).
setCorrelationIdOnce(id) ==
    currentCorrelationId' = IF currentCorrelationId = Null THEN id ELSE currentCorrelationId
setCorrelationId(id) == currentCorrelationId' = id
setRequestId(id) == currentRequestId' = id
setUserId(id) == currentUserId' = id
getCorrelationId == currentCorrelationId
getRequestId == currentRequestId
getUserId == currentUserId

\* The values application code passes to the setters; undefined is passed too
\* (mock-backend/server.js:30).
ContextFields == {"correlationId", "requestId", "userId"}
ContextValues(field) ==
    CASE field = "correlationId" -> {Null, <<"cid", "X">>, <<"cid", "Y">>}
      [] field = "requestId" -> {Null, <<"rid", 1>>}
      [] field = "userId" -> {Null, <<"uid", 1>>}

\* A call of one of the three setters.
Set(field, id) ==
    CASE field = "correlationId" ->
             setCorrelationId(id) /\ UNCHANGED <<currentRequestId, currentUserId>>
      [] field = "requestId" ->
             setRequestId(id) /\ UNCHANGED <<currentCorrelationId, currentUserId>>
      [] field = "userId" ->
             setUserId(id) /\ UNCHANGED <<currentCorrelationId, currentRequestId>>

\* A call of one of the three getters: what it returns.
Get(field) ==
    CASE field = "correlationId" -> getCorrelationId
      [] field = "requestId" -> getRequestId
      [] field = "userId" -> getUserId

\* Application code calls a setter; the call is kept in the list of calls made.
SetterCall(field, id) ==
    /\ Len(calls) < MaxStoreCalls
    /\ Set(field, id)
    /\ calls' = Append(calls, [IdleFrame EXCEPT !.pc = "done", !.op = "set",
                                                !.level = field, !.args = <<id>>])
    /\ UNCHANGED <<env, logStreamReady, nextSequenceToken, sent, console, sink,
                   requests, uuidCount>>

\* Application code calls a getter; the call is kept with the value returned.
GetterCall(field) ==
    /\ Len(calls) < MaxStoreCalls
    /\ calls' = Append(calls, [IdleFrame EXCEPT !.pc = "done", !.op = "get",
                                                !.level = field, !.args = <<Get(field)>>])
    /\ UNCHANGED <<env, logStreamReady, nextSequenceToken, sent, console, sink,
                   contextVars>>

\* ------------------------------------------------ winston logger (198-261)
\* winston's default (npm) levels, used by createLogger when none are given
npmLevels == [error |-> 0, warn |-> 1, info |-> 2, http |-> 3, verbose |-> 4,
              debug |-> 5, silly |-> 6]
\* level: process.env.LOG_LEVEL || "info" (line 215)
LoggerLevel == IF env.LOG_LEVEL = Unset THEN "info" ELSE env.LOG_LEVEL
\* A transport writes a record only when the logger's level is a known level at
\* least as verbose as the record's.
LevelEnabled(level) ==
    /\ LoggerLevel \in DOMAIN npmLevels
    /\ npmLevels[LoggerLevel] >= npmLevels[level]

\* contextFormat (lines 198-212), reading the store as (cid, rid, uid)
contextFormat(info, cid, rid, uid) ==
    LET a == Spread(info, [correlationId |-> cid])
        b == IF Truthy(rid) THEN Spread(a, [requestId |-> rid]) ELSE a
        d == IF Truthy(uid) THEN Spread(b, [userId |-> uid]) ELSE b
    IN Spread(d, [timestamp |-> "now"])

\* logger[level](message, meta): the info object winston builds from the call
Info(level, message, meta) == Spread(meta, [level |-> level, message |-> message])

Rest(obj, keys) == [k \in DOMAIN obj \ keys |-> obj[k]]
Field(obj, k) == IF k \in DOMAIN obj THEN obj[k] ELSE Null

\* The Console transport's printf (lines 221-234): the tags of the line, the
\* message and the remaining fields.
ConsoleLine(info) ==
    [level |-> info.level,
     cid |-> IF Truthy(Field(info, "correlationId")) THEN info.correlationId ELSE Null,
     rid |-> IF Truthy(Field(info, "requestId")) THEN info.requestId ELSE Null,
     message |-> info.message,
     meta |-> Rest(info, {"timestamp", "level", "message", "correlationId", "requestId"})]

\* The console lines one logger[level](message, meta) call writes, with the
\* store holding (cid, rid, uid): the logger's format, then the Console
\* transport's format.
LoggerLines(level, message, meta, cid, rid, uid) ==
    IF LevelEnabled(level)
    THEN <<Line("log", "record",
                ConsoleLine(contextFormat(contextFormat(Info(level, message, meta),
                                                        cid, rid, uid),
                                          cid, rid, uid)))>>
    ELSE <<>>

\* The record the logger hands to its transports: the logger's own format
\* (line 216) applied to the info object; winston.format.json() only serialises
\* it, null fields included.
LoggerRecord(level, message, meta, cid, rid, uid) ==
    contextFormat(Info(level, message, meta), cid, rid, uid)

\* The CloudWatch transport's messageFormatter (lines 247-257), applied to the
\* record the logger hands over; meta is the record's field of that name.
\* JSON.stringify keeps a field whose value is null.
messageFormatter(info, cid) ==
    LET meta == Field(info, "meta")
        own == IF meta # Null THEN Field(meta, "correlationId") ELSE Null
    IN Spread([timestamp |-> "now", level |-> info.level, message |-> info.message,
               correlationId |-> IF Truthy(own) THEN own ELSE cid],
              IF meta # Null THEN meta ELSE EmptyObj)

\* What the CloudWatch transport, present when CLOUDWATCH_ENABLED === "true"
\* (line 240), queues for one logger call.
RemoteLines(level, message, meta, cid, rid, uid) ==
    IF env.CLOUDWATCH_ENABLED = "true" /\ LevelEnabled(level)
    THEN <<messageFormatter(LoggerRecord(level, message, meta, cid, rid, uid), cid)>>
    ELSE <<>>

\* ------------------------------------ StructuredLogger (structuredLogger.js)
\* getBaseMetadata() (lines 14-22)
getBaseMetadata(service) ==
    [service |-> service, correlationId |-> getCorrelationId,
     requestId |-> getRequestId, userId |-> getUserId, timestamp |-> "now"]
\* { ...this.getBaseMetadata(), ...metadata } (lines 28-31)
StructuredMetadata(service, metadata) == Spread(getBaseMetadata(service), metadata)

\* One call of logger[level](message, meta), or of a StructuredLogger's method
\* of that level, made with the store as it is.  The call is kept with its
\* arguments, the store's values at the call and the record; console and sent
\* get what the Console and the CloudWatch transport write for it.
LoggerCall(level, message, metadata, structured) ==
    /\ Len(calls) < MaxLogCalls
    /\ LET meta == IF structured THEN StructuredMetadata("svc", metadata) ELSE metadata
           cid == currentCorrelationId
           rid == currentRequestId
           uid == currentUserId
       IN /\ calls' = Append(calls,
                 [IdleFrame EXCEPT !.pc = "done",
                     !.op = IF structured THEN "structured" ELSE "logger",
                     !.level = level,
                     !.entry = LoggerRecord(level, message, meta, cid, rid, uid),
                     !.args = [message |-> message, metadata |-> metadata,
                               correlationId |-> cid, requestId |-> rid, userId |-> uid]])
          /\ console' = Append(console, LoggerLines(level, message, meta, cid, rid, uid))
          /\ sent' = Append(sent, RemoteLines(level, message, meta, cid, rid, uid))
    /\ UNCHANGED <<env, logStreamReady, nextSequenceToken, sink, contextVars>>

\* Application code calls a setter between two logger calls.
ContextSet(field, id) ==
    /\ Set(field, id)
    /\ UNCHANGED <<env, emitterVars, console, requests, uuidCount>>

\* ---------------------------------- StructuredLogger's methods (lines 27-87)
\* createLogger(serviceName): the name the logger was constructed with.
ServiceName == "payment-service"
\* duration > 5000 (line 80)
PerformanceThreshold == 5000

\* JavaScript values passed as the error argument: nothing, a plain value, an
\* Error with its own properties, an AppError (errorTypes.js, lines 32-46).
NoErrorValue == [kind |-> "none"]
PlainValue(v) == [kind |-> "plain", value |-> v]
ErrorObject(message, props) ==
    [kind |-> "Error", message |-> message, stack |-> <<"stack of", message>>, props |-> props]
\* new AppError(message, statusCode, errorCode): statusCode and errorCode are
\* assigned as properties of those names (lines 40-41).
AppError(message, statusCode, errorCode) ==
    ErrorObject(message, [statusCode |-> statusCode, errorCode |-> errorCode,
                          isOperational |-> TRUE, name |-> "AppError"])
InstanceOfError(error) == error.kind = "Error"
\* if (error.code): the test of a property that may be missing; the properties
\* the errors here carry are non-empty strings and non-zero numbers.
TruthyProp(obj, k) == k \in DOMAIN obj
TruthyValue(error) ==
    CASE error.kind = "none" -> FALSE
      [] error.kind = "plain" -> error.value # ""
      [] OTHER -> TRUE

\* The errorMetadata object of error() (lines 48-57)
ErrorMetadata(error) ==
    IF InstanceOfError(error)
    THEN LET a == [error |-> error.message, errorStack |-> error.stack]
             b == IF TruthyProp(error.props, "code")
                  THEN Spread(a, [errorCode |-> error.props.code]) ELSE a
         IN IF TruthyProp(error.props, "statusCode")
            THEN Spread(b, [statusCode |-> error.props.statusCode]) ELSE b
    ELSE IF TruthyValue(error) THEN [error |-> error.value] ELSE EmptyObj

\* logger[level](message, meta) called by a method of the StructuredLogger:
\* the call is kept with the method's name and arguments, console and sent get
\* what the transports write.
StructuredCall(op, level, message, meta, args) ==
    /\ Len(calls) < MaxLogCalls
    /\ LET cid == currentCorrelationId
           rid == currentRequestId
           uid == currentUserId
       IN /\ calls' = Append(calls,
                 [IdleFrame EXCEPT !.pc = "done", !.op = op, !.level = level,
                     !.entry = LoggerRecord(level, message, meta, cid, rid, uid),
                     !.args = args])
          /\ console' = Append(console, LoggerLines(level, message, meta, cid, rid, uid))
          /\ sent' = Append(sent, RemoteLines(level, message, meta, cid, rid, uid))
    /\ UNCHANGED <<env, logStreamReady, nextSequenceToken, sink, contextVars>>

\* info(message, metadata) (lines 27-32); warn and debug differ in the level only
StructuredInfo(message, metadata) ==
    StructuredCall("info", "info", message, StructuredMetadata(ServiceName, metadata),
                   [message |-> message, metadata |-> metadata])

\* error(message, error, metadata) (lines 47-64)
StructuredError(message, error, metadata) ==
    StructuredCall("error", "error", message,
                   Spread(Spread(getBaseMetadata(ServiceName), ErrorMetadata(error)),
                          metadata),
                   [message |-> message, error |-> error, metadata |-> metadata])

\* Variant: the threshold itself already warns (>= in place of >).
PerformanceLevelInclusive(duration) ==
    IF duration >= PerformanceThreshold THEN "warn" ELSE "info"
\* const level = duration > 5000 ? "warn" : "info" (line 80)
PerformanceLevel(duration) == IF duration > PerformanceThreshold THEN "warn" ELSE "info"

\* performance(operationName, duration, metadata) (lines 79-87)
StructuredPerformance(operationName, duration, metadata) ==
    StructuredCall("performance", PerformanceLevel(duration),
                   <<"Performance: ", operationName>>,
                   Spread(Spread(getBaseMetadata(ServiceName),
                                 [operation |-> operationName, durationMs |-> duration]),
                          metadata),
                   [operationName |-> operationName, duration |-> duration,
                    metadata |-> metadata])

\* ------------------------------------------- HTTP boundary hook (part_003)
NewRequest == [pc |-> "new", hook |-> Null, header |-> Null,
               correlationId |-> Null, requestId |-> Null,
               statusCode |-> 0, logged |-> 0, userId |-> Null,
               body |-> [present |-> FALSE, encryption |-> <<"undefined", "">>,
                         paymentData |-> Null],
               response |-> [status |-> 0, code |-> "", access_token |-> Null],
               accessToken |-> Null, signed |-> FALSE, success |-> FALSE,
               metrics |-> <<>>]

RequestMayStart(r) ==
    requests[r].pc = "new" /\ (IF r = 1 THEN TRUE ELSE requests[r - 1].pc # "new")

\* a || b on string-or-null values
OrElse(a, b) == IF Truthy(a) THEN a ELSE b

\* One logger call of request r, written with the store as it is after the step.
LogAs(r, level, message, meta) ==
    console' = [console EXCEPT ![r] = @ \o
        LoggerLines(level, message, meta,
                    currentCorrelationId', currentRequestId', currentUserId')]

\* httpLoggingMiddleware (lines 8-32): the pre-handling hook.  id is request.id,
\* header is request.headers["x-correlation-id"].
httpLoggingMiddleware(r, id, header) ==
    /\ RequestMayStart(r)
    /\ UNCHANGED <<env, emitterVars, currentUserId>>
    /\ LET requestId == OrElse(id, Uuid(uuidCount + 1))
           used == IF Truthy(id) THEN uuidCount ELSE uuidCount + 1
           correlationId == OrElse(header, Uuid(used + 1))
       IN /\ uuidCount' = IF Truthy(header) THEN used ELSE used + 1
          /\ setRequestId(requestId)
          /\ setCorrelationId(correlationId)
          /\ requests' = [requests EXCEPT ![r] =
                 [@ EXCEPT !.pc = "handler", !.hook = "httpLoggingMiddleware",
                           !.header = header, !.correlationId = correlationId,
                           !.requestId = requestId, !.logged = 1]]
          /\ LogAs(r, "info", "HTTP Request",
                   [correlationId |-> correlationId, requestId |-> requestId])

\* POST /resources/payment (part_002, lines 31-78), up to the await of
\* jwtVerify or, for a plain payload, to the reply.
resourcesPayment(r, encrypted) ==
    /\ requests[r].pc = "handler"
    /\ UNCHANGED <<env, emitterVars, currentCorrelationId, currentRequestId,
                   currentUserId, uuidCount>>
    /\ console' = [console EXCEPT ![r] = @ \o
           LoggerLines("info", "Payment endpoint called", [source |-> "encrypted-flow"],
                       currentCorrelationId, currentRequestId, currentUserId) \o
           LoggerLines("info",
                       IF encrypted THEN "Encrypted payload detected"
                       ELSE "Plain payload detected",
                       EmptyObj, currentCorrelationId, currentRequestId, currentUserId)]
    /\ requests' = [requests EXCEPT ![r] =
           IF encrypted
           THEN [@ EXCEPT !.pc = "awaitVerify", !.logged = @ + 2]
           ELSE [@ EXCEPT !.pc = "reply", !.statusCode = 200, !.logged = @ + 2]]

\* part_002, lines 55-73: jwtVerify has settled.
resourcesPaymentAfterVerify(r, verified) ==
    /\ requests[r].pc = "awaitVerify"
    /\ UNCHANGED <<env, emitterVars, currentCorrelationId, currentRequestId,
                   currentUserId, uuidCount>>
    /\ console' = [console EXCEPT ![r] = @ \o
           IF verified
           THEN LoggerLines("info", "JOSE token verified successfully", EmptyObj,
                            currentCorrelationId, currentRequestId, currentUserId)
           ELSE LoggerLines("error", "JOSE verification failed",
                            [error |-> "signature verification failed"],
                            currentCorrelationId, currentRequestId, currentUserId)]
    /\ requests' = [requests EXCEPT ![r] =
           [@ EXCEPT !.pc = "reply", !.statusCode = IF verified THEN 200 ELSE 400,
                     !.logged = @ + 1]]

\* A route handler of an authenticated route as the documentation writes it
\* (part_001, lines 174-181): setUserId(request.user.id) once the request is
\* authenticated, then the handler's own logging.  user is request.user.id,
\* null for a request that carries no user.
routeHandler(r, user) ==
    /\ requests[r].pc = "handler"
    /\ UNCHANGED <<env, emitterVars, currentCorrelationId, currentRequestId, uuidCount>>
    /\ IF Truthy(user) THEN setUserId(user) ELSE UNCHANGED currentUserId
    /\ LogAs(r, "info", "Payment endpoint called", [source |-> "encrypted-flow"])
    /\ requests' = [requests EXCEPT ![r] =
           [@ EXCEPT !.pc = "reply", !.statusCode = 200, !.logged = @ + 1,
                     !.userId = user]]

\* The onResponse hook the middleware installs (part_003, lines 35-52).
onResponse(r) ==
    /\ requests[r].pc = "reply"
    /\ UNCHANGED <<env, emitterVars, currentCorrelationId, currentRequestId,
                   currentUserId, uuidCount>>
    /\ LET statusCode == requests[r].statusCode
           isError == statusCode >= 400
           logLevel == IF isError THEN "error" ELSE "info"
           base == [statusCode |-> statusCode,
                    correlationId |-> requests[r].correlationId,
                    requestId |-> requests[r].requestId]
           meta == IF isError
                   THEN Spread(base, [errorDetails |-> "Unknown error"])
                   ELSE base
       IN console' = [console EXCEPT ![r] = @ \o
              LoggerLines(logLevel, "HTTP Response", meta,
                          currentCorrelationId, currentRequestId, currentUserId)]
    /\ requests' = [requests EXCEPT ![r] = [@ EXCEPT !.pc = "done", !.logged = @ + 1]]

\* ------------------------------------------------------------ specification
InitContext ==
    /\ currentCorrelationId = Null
    /\ currentRequestId = Null
    /\ currentUserId = Null
    /\ requests = <<>>
    /\ uuidCount = 0

InitEmitter ==
    /\ logStreamReady = FALSE
    /\ nextSequenceToken = Null
    /\ calls = [c \in CallIds |-> IdleFrame]
    /\ sent = [c \in CallIds |-> <<>>]
    /\ console = [c \in CallIds |-> <<>>]
    /\ sink = EmptySink

\* The continuations of the emitter's suspended functions.
Resume(c) ==
    \/ InitAfterCreateLogGroup(c)
    \/ InitAfterCreateLogStream(c)
    \/ LogAfterInitialize(c)
    \/ LogAfterPut(c)
    \/ LogAfterDescribe(c)
    \/ PutMetricAfterSend(c)

\* Spec: up to MaxCalls emitter calls, interleaved at their awaits in every
\* possible way.  One record level that passes the default gate and one that
\* does not.
ConcurrentLevels == {"ERROR", "DEBUG"}

Init ==
    /\ env \in [CLOUDWATCH_ENABLED : EnabledValues, LOG_LEVEL : {Unset, "ERROR"},
                AWS_ENVIRONMENT : {Unset}]
    /\ InitEmitter
    /\ InitContext

Next ==
    \E c \in CallIds :
        \/ InitializeLogStream(c)
        \/ \E level \in ConcurrentLevels : LogToCloudWatch(c, level, MessageOf(c), EmptyObj)
        \/ PutMetric(c, "X", 1, Unset, <<>>)
        \/ Resume(c)

Spec == Init /\ [][Next]_vars

\* SpecSeq: the calls run one after the other (each is awaited before the next
\* is made), with every level, every LOG_LEVEL and caller metadata.
Quiescent == \A c \in CallIds : calls[c].pc \in {"idle", "done", "rejected"}

InitSeq ==
    /\ env \in [CLOUDWATCH_ENABLED : EnabledValues, LOG_LEVEL : LogLevelValues,
                AWS_ENVIRONMENT : {Unset}]
    /\ InitEmitter
    /\ InitContext

NextSeq ==
    \E c \in SeqCallIds :
        \/ Quiescent /\ InitializeLogStream(c)
        \/ \E level \in Levels, metadata \in Metadatas :
               Quiescent /\ LogToCloudWatch(c, level, MessageOf(c), metadata)
        \/ Quiescent /\ PutMetric(c, "X", 1, Unset, <<>>)
        \/ Resume(c)

SpecSeq == InitSeq /\ [][NextSeq]_vars

\* SpecMetric: up to MaxMetricCalls putMetric calls, interleaved at their
\* await, over every environment name, unit and dimension list.
EnvironmentValues == {Unset, "prod"}
MetricNames == {"X", "PaymentError"}
MetricValues == {1}
Units == {Unset, "Milliseconds"}
DimensionLists == {<<>>, <<[Name |-> "Foo", Value |-> "bar"]>>,
                   <<[Name |-> "Zed", Value |-> "z"], [Name |-> "Foo", Value |-> "bar"]>>}

InitMetric ==
    /\ env \in [CLOUDWATCH_ENABLED : EnabledValues, LOG_LEVEL : {Unset},
                AWS_ENVIRONMENT : EnvironmentValues]
    /\ InitEmitter
    /\ InitContext

NextMetric ==
    \E c \in MetricCallIds :
        \/ \E metricName \in MetricNames, value \in MetricValues, unit \in Units,
              dimensions \in DimensionLists :
               PutMetric(c, metricName, value, unit, dimensions)
        \/ PutMetricAfterSend(c)

SpecMetric == InitMetric /\ [][NextMetric]_vars

\* SpecStore: up to MaxStoreCalls calls of the context store's setters and
\* getters, in any order, by whatever code is running.
InitStore ==
    /\ env \in [CLOUDWATCH_ENABLED : {Unset}, LOG_LEVEL : {Unset}, AWS_ENVIRONMENT : {Unset}]
    /\ logStreamReady = FALSE
    /\ nextSequenceToken = Null
    /\ calls = <<>>
    /\ sent = <<>>
    /\ sink = EmptySink
    /\ console = <<>>
    /\ InitContext

NextStore ==
    \E field \in ContextFields :
        \/ \E id \in ContextValues(field) : SetterCall(field, id)
        \/ GetterCall(field)

SpecStore == InitStore /\ [][NextStore]_vars

\* SpecLog: up to MaxLogCalls calls of the winston logger, directly or through
\* a StructuredLogger, with setter calls in between.
LoggerLevels == {"info", "debug"}
LoggerMetadatas == {EmptyObj, [correlationId |-> <<"cid", "M">>]}

InitLog ==
    /\ env \in [CLOUDWATCH_ENABLED : {Unset, "true"}, LOG_LEVEL : {Unset, "error"},
                AWS_ENVIRONMENT : {Unset}]
    /\ logStreamReady = FALSE
    /\ nextSequenceToken = Null
    /\ calls = <<>>
    /\ sent = <<>>
    /\ sink = EmptySink
    /\ console = <<>>
    /\ InitContext

NextLog ==
    \/ \E field \in ContextFields : \E id \in ContextValues(field) : ContextSet(field, id)
    \/ \E level \in LoggerLevels, metadata \in LoggerMetadatas, structured \in BOOLEAN :
           LoggerCall(level, MessageOf(Len(calls) + 1), metadata, structured)

SpecLog == InitLog /\ [][NextLog]_vars

\* SpecStructured: application code sets the correlation id and calls the
\* methods of a StructuredLogger, up to MaxLogCalls calls.
StructuredMetadatas ==
    {EmptyObj,
     [service |-> "other-service", correlationId |-> <<"cid", "M">>],
     [operation |-> "other-operation", durationMs |-> 1, amount |-> 100]}
ErrorValues ==
    {NoErrorValue, PlainValue("timeout"), PlainValue(""),
     ErrorObject("boom", EmptyObj),
     ErrorObject("connect ECONNREFUSED", [code |-> "ECONNREFUSED", statusCode |-> 503]),
     AppError("paymentData is required", 400, "DONEB-01001")}
Durations == {PerformanceThreshold - 1, PerformanceThreshold, PerformanceThreshold + 1}

InitStructured ==
    /\ env \in [CLOUDWATCH_ENABLED : {Unset}, LOG_LEVEL : {Unset}, AWS_ENVIRONMENT : {Unset}]
    /\ logStreamReady = FALSE
    /\ nextSequenceToken = Null
    /\ calls = <<>>
    /\ sent = <<>>
    /\ sink = EmptySink
    /\ console = <<>>
    /\ InitContext

NextStructured ==
    \/ \E id \in ContextValues("correlationId") : ContextSet("correlationId", id)
    \/ \E metadata \in StructuredMetadatas :
           StructuredInfo(MessageOf(Len(calls) + 1), metadata)
    \/ \E error \in ErrorValues, metadata \in StructuredMetadatas :
           StructuredError(MessageOf(Len(calls) + 1), error, metadata)
    \/ \E duration \in Durations, metadata \in StructuredMetadatas :
           StructuredPerformance("payment_process", duration, metadata)

SpecStructured == InitStructured /\ [][NextStructured]_vars

\* SpecPerformance: the same, with calls of performance() only.
NextPerformance ==
    \/ \E id \in ContextValues("correlationId") : ContextSet("correlationId", id)
    \/ \E duration \in Durations, metadata \in StructuredMetadatas :
           StructuredPerformance("payment_process", duration, metadata)

SpecPerformance == InitStructured /\ [][NextPerformance]_vars

\* SpecCtx: the Fastify server handles up to MaxRequests requests, interleaved
\* at the handler's await.
LoggerLevelValues == {Unset, "DEBUG", "debug", "error"}
\* Fastify gives every request an id.
RequestIdValues(r) == {<<"req", r>>}
HeaderValues(r) == {Null, EmptyString, <<"cid", r>>}

InitCtx ==
    /\ env \in [CLOUDWATCH_ENABLED : {"true", Unset}, LOG_LEVEL : LoggerLevelValues,
                AWS_ENVIRONMENT : {Unset}]
    /\ logStreamReady = FALSE
    /\ nextSequenceToken = Null
    /\ calls = <<>>
    /\ sent = <<>>
    /\ sink = EmptySink
    /\ console = [r \in RequestIds |-> <<>>]
    /\ currentCorrelationId = Null
    /\ currentRequestId = Null
    /\ currentUserId = Null
    /\ requests = [r \in RequestIds |-> NewRequest]
    /\ uuidCount = 0

NextCtx ==
    \E r \in RequestIds :
        \/ \E id \in RequestIdValues(r), header \in HeaderValues(r) :
               httpLoggingMiddleware(r, id, header)
        \/ \E encrypted \in BOOLEAN : resourcesPayment(r, encrypted)
        \/ \E verified \in BOOLEAN : resourcesPaymentAfterVerify(r, verified)
        \/ onResponse(r)

SpecCtx == InitCtx /\ [][NextCtx]_vars

\* SpecUser: the Fastify server handles up to MaxRequests requests one after
\* the other; a handler sets the user id when its request carries a user.
UserValues(r) == {Null, <<"uid", r>>}
Finished(r) == \A q \in 1..(r - 1) : requests[q].pc = "done"

NextUser ==
    \E r \in RequestIds :
        \/ \E id \in RequestIdValues(r), header \in HeaderValues(r) :
               Finished(r) /\ httpLoggingMiddleware(r, id, header)
        \/ \E user \in UserValues(r) : routeHandler(r, user)
        \/ onResponse(r)

SpecUser == InitCtx /\ [][NextUser]_vars

\* ------------------------------------------------ services (SpecSvc)
\* The services of the call chain handle up to MaxRequests inbound requests,
\* interleaved at their awaits: the Payment Lambda (the outermost entry point),
\* the Token Lambda and the Mock Backend (downstream).  requests holds one
\* record per inbound request: hook is the entry that ran for it, header its
\* x-correlation-id header, correlationId the entry's const correlationId (for
\* Fastify also request.correlationId), body its parsed event.body, response
\* the outcome of the outbound call that settled last, accessToken and signed
\* the Token Lambda's locals.  sent holds the outbound HTTP calls the request
\* has made, console the lines its logger calls wrote.
TOKEN_LAMBDA_URL == "http://localhost:3000/dev/token"
OAuthTokenUrl == "http://localhost:4000/oauth/token"
ResourcesPaymentUrl == "http://localhost:4000/resources/payment"

\* Values of body.encryption, by JavaScript type.
EncryptionTrue == <<"boolean", "true">>
EncryptionFalse == <<"boolean", "false">>
EncryptionValues == {EncryptionTrue, EncryptionFalse, <<"string", "true">>,
                     <<"number", "1">>, <<"undefined", "">>}
PaymentData == <<"paymentData">>
\* event.body: absent, or an object with encryption and paymentData.
NoBody == [present |-> FALSE, encryption |-> <<"undefined", "">>, paymentData |-> Null]
Body(encryption, paymentData) ==
    [present |-> TRUE, encryption |-> encryption, paymentData |-> paymentData]
Bodies == {NoBody, Body(EncryptionTrue, Null)} \cup
          {Body(e, PaymentData) : e \in EncryptionValues}
PlainBodies == {Body(e, PaymentData) : e \in {EncryptionTrue, EncryptionFalse}}
\* The bodies the Token Lambda is called with: { paymentData } at most.
TokenBodies == {NoBody} \cup {Body(<<"undefined", "">>, p) : p \in {Null, PaymentData}}

\* Variant: if (encryption), any truthy value takes the encrypted route.
EncryptionEnabledLoose(encryption) ==
    encryption \in {EncryptionTrue, <<"string", "true">>, <<"number", "1">>}
\* encryption === true (paymentLambda.js, line 53)
EncryptionEnabled(encryption) == encryption = EncryptionTrue

\* Outcomes of an axios.post: an HTTP response, or no connection.
NoResponse == [status |-> 0, code |-> "", access_token |-> Null]
ConnectionRefused == [status |-> 0, code |-> "ECONNREFUSED", access_token |-> Null]
HttpResponse(status, access_token) ==
    [status |-> status, code |-> "", access_token |-> access_token]
\* axios resolves on a 2xx status and rejects otherwise.
Resolved(response) == response.status = 200

\* Authorization: `Bearer ${accessToken}`
Bearer(accessToken) == <<"Bearer", accessToken>>
\* fastify.jwt.sign (auth.js, lines 39-46): a token of the Mock Backend.
JwtSign(r) == <<"jwt", r>>
\* request.jwtVerify() (part_002, line 18): the header holds a Bearer token
\* that the Mock Backend has signed.
JwtVerify(authorization) ==
    /\ Len(authorization) = 2 /\ authorization[1] = "Bearer"
    /\ Len(authorization[2]) = 2 /\ authorization[2][1] = "jwt"

\* authRoutes, POST /oauth/token (auth.js, lines 23-59): the credentials the
\* Token Lambda sends are the ones the route accepts.
authRoutes(r, call) == HttpResponse(200, JwtSign(r))
\* resourceRoutes, the answer to a POST /resources/payment as the caller sees
\* it (part_002, lines 16-78): the auth hook answers 401
\* unless the Bearer token verifies; a plain payload is processed, and so is a
\* payload the Token Lambda signed (same secret, issuer and audience, lines
\* 5-7 and 45-52, errorTypes.js, lines 70-72 and 158-164).
resourceRoutes(call) ==
    IF JwtVerify(call.authorization) THEN HttpResponse(200, Null)
    ELSE HttpResponse(401, Null)

\* What the outbound call request r is waiting for can end with: the answer
\* of the Mock Backend when it is running, the Token Lambda's status, or no
\* connection.
Responses(r) ==
    IF sent[r] = <<>> THEN {}
    ELSE LET call == sent[r][Len(sent[r])]
         IN {ConnectionRefused} \cup
            (IF call.url = OAuthTokenUrl THEN {authRoutes(r, call)}
             ELSE IF call.url = ResourcesPaymentUrl THEN {resourceRoutes(call)}
             ELSE {HttpResponse(200, Null), HttpResponse(500, Null)})

\* handleError (errorWrapper.js, lines 93-130 and 195-211) on a rejected
\* axios.post: 503 for no connection and for a 5xx answer, else 500.
handleErrorStatus(response) ==
    IF response.code = "ECONNREFUSED" \/ response.status >= 500 THEN 503 ELSE 500

\* Variant: the call takes the header from the store, getCorrelationId().
axiosPostFromStore(r, url, correlationId, authorization) ==
    sent' = [sent EXCEPT ![r] = Append(@, [url |-> url,
                                           correlationId |-> currentCorrelationId',
                                           authorization |-> authorization])]
\* axios.post(url, data, { headers: { "x-correlation-id": correlationId,
\* Authorization: authorization } })
axiosPost(r, url, correlationId, authorization) ==
    sent' = [sent EXCEPT ![r] = Append(@, [url |-> url, correlationId |-> correlationId,
                                           authorization |-> authorization])]

\* logger[level](message): the lines the call writes with the store holding cid.
loggerLog(level, message, cid) ==
    LoggerLines(level, message, EmptyObj, cid, currentRequestId, currentUserId)
\* logInfo(message, meta), logWarn(message, meta) and logError(message, code,
\* meta) of ../shared/cloudWatchLogger: each logs at its level through the
\* logger and does nothing else.
logInfo(message, cid) == loggerLog("info", message, cid)
logWarn(message, cid) == loggerLog("warn", message, cid)
logError(message, cid) == loggerLog("error", message, cid)

WriteLines(r, lines) == console' = [console EXCEPT ![r] = @ \o lines]

\* The Mock Backend's own preHandler hook (server.js, lines 25-33).  The
\* warning is logged before the store is written.
preHandler(r, header) ==
    /\ RequestMayStart(r)
    /\ LET correlationId == header
       IN /\ WriteLines(r, IF ~Truthy(correlationId)
                           THEN loggerLog("warn", "Missing correlation ID in Mock Backend request",
                                          currentCorrelationId)
                           ELSE <<>>)
          /\ setCorrelationId(correlationId)
          /\ requests' = [requests EXCEPT ![r] =
                 [@ EXCEPT !.pc = "handler", !.hook = "preHandler", !.header = header,
                           !.correlationId = correlationId,
                           !.logged = IF Truthy(correlationId) THEN 0 ELSE 1]]
    /\ UNCHANGED <<env, emitterVars, currentRequestId, currentUserId, uuidCount>>

\* paymentLambda handler (lines 18-102), from its entry to the await of its
\* outbound call: the Token Lambda when encryption is on, else the Mock
\* Backend, with no Authorization header.  A request without body or without
\* paymentData throws an AppError with status 400 before any call.
paymentLambda(r, header, body) ==
    /\ RequestMayStart(r)
    /\ LET correlationId == OrElse(header, Uuid(uuidCount + 1))
           entered == [requests[r] EXCEPT !.hook = "paymentLambda", !.header = header,
                                          !.correlationId = correlationId, !.body = body]
           triggered == logInfo("Payment Lambda triggered", correlationId)
       IN /\ uuidCount' = IF Truthy(header) THEN uuidCount ELSE uuidCount + 1
          /\ setCorrelationId(correlationId)
          /\ IF ~body.present
             THEN /\ WriteLines(r, triggered)
                  /\ sent' = sent
                  /\ requests' = [requests EXCEPT ![r] =
                         [entered EXCEPT !.pc = "awaitMetric", !.statusCode = 400,
                                         !.logged = 1]]
             ELSE IF ~Truthy(body.paymentData)
             THEN /\ WriteLines(r, triggered \o
                         logWarn("Payment Lambda: paymentData is required", correlationId))
                  /\ sent' = sent
                  /\ requests' = [requests EXCEPT ![r] =
                         [entered EXCEPT !.pc = "awaitMetric", !.statusCode = 400,
                                         !.logged = 2]]
             ELSE /\ WriteLines(r, triggered \o
                         logInfo(IF EncryptionEnabled(body.encryption)
                                 THEN "Payment Lambda: Encryption enabled, calling Token Lambda"
                                 ELSE "Payment Lambda: Encryption disabled, calling Mock Backend directly",
                                 correlationId))
                  /\ axiosPost(r, IF EncryptionEnabled(body.encryption)
                                  THEN TOKEN_LAMBDA_URL ELSE ResourcesPaymentUrl,
                               correlationId, Null)
                  /\ requests' = [requests EXCEPT ![r] =
                         [entered EXCEPT !.pc = "awaitPost", !.logged = 2]]
    /\ UNCHANGED <<env, logStreamReady, nextSequenceToken, calls, sink,
                   currentRequestId, currentUserId>>

\* await putMetric(metricName, 1, "Count", ...) as the handlers use it: the
\* datapoints the call sends, none unless CLOUDWATCH_ENABLED is "true"
\* (cloudWatchLogger.js, lines 66 and 88).
putMetric(metricName) == IF RemoteDisabled THEN <<>> ELSE <<metricName>>

\* The metric of the settled outbound call (paymentLambda.js, lines 71, 80,
\* 105, 114).
DownstreamMetric(url, resolved) ==
    IF url = TOKEN_LAMBDA_URL
    THEN (IF resolved THEN "TokenLambdaCallSuccess" ELSE "TokenLambdaCallError")
    ELSE (IF resolved THEN "MockBackendCallSuccess" ELSE "MockBackendCallError")

\* Variant: the outcome metric is PaymentSuccess on every path.
OutcomeMetricAlwaysSuccess(statusCode) == "PaymentSuccess"
\* The outcome metric: PaymentSuccess before return { statusCode: 200 } (line
\* 123), PaymentError in the outer catch (line 145).
OutcomeMetric(statusCode) == IF statusCode = 200 THEN "PaymentSuccess" ELSE "PaymentError"

\* paymentLambda (lines 69-83, 103-117): the outbound call has settled; the
\* handler logs the outcome and awaits putMetric.
paymentLambdaAfterPost(r, response) ==
    /\ requests[r].pc = "awaitPost" /\ requests[r].hook = "paymentLambda"
    /\ WriteLines(r, IF Resolved(response)
                     THEN logInfo("Payment Lambda: call successful", currentCorrelationId)
                     ELSE logError("Payment Lambda: call failed", currentCorrelationId))
    /\ requests' = [requests EXCEPT ![r] =
           [@ EXCEPT !.pc = "awaitMetric", !.response = response,
                     !.statusCode = IF Resolved(response) THEN 200
                                    ELSE handleErrorStatus(response),
                     !.metrics = @ \o putMetric(DownstreamMetric(sent[r][1].url,
                                                                 Resolved(response))),
                     !.logged = @ + 1]]
    /\ UNCHANGED <<env, emitterVars, currentCorrelationId, currentRequestId,
                   currentUserId, uuidCount>>

\* paymentLambda (lines 120-152): after the metric, the handler logs the
\* result and returns { statusCode: 200, body: { success: true, result } }; a
\* failure goes through the outer catch and handleError (errorWrapper.js,
\* lines 27-40), which logs once more and returns an error body.  Either way
\* the outcome metric and then PaymentDuration are awaited before the return.
paymentLambdaAfterMetric(r) ==
    /\ requests[r].pc = "awaitMetric" /\ requests[r].hook = "paymentLambda"
    /\ WriteLines(r, IF requests[r].statusCode = 200
                     THEN logInfo("Payment Lambda: Success", currentCorrelationId)
                     ELSE logError("Payment Lambda error", currentCorrelationId) \o
                          loggerLog("error", "Error occurred in Lambda", currentCorrelationId))
    /\ requests' = [requests EXCEPT ![r] =
           [@ EXCEPT !.pc = "done", !.success = (requests[r].statusCode = 200),
                     !.metrics = @ \o putMetric(OutcomeMetric(requests[r].statusCode)) \o
                                      putMetric("PaymentDuration"),
                     !.logged = @ + (IF requests[r].statusCode = 200 THEN 1 ELSE 2)]]
    /\ UNCHANGED <<env, emitterVars, currentCorrelationId, currentRequestId,
                   currentUserId, uuidCount>>

\* tokenLambda handler (errorTypes.js, lines 74-131), from its entry to the
\* await of the OAuth token call.  The warning is logged before the store is
\* written.  A request without body or without paymentData throws an AppError
\* with status 400 before any call.
tokenLambda(r, header, body) ==
    /\ RequestMayStart(r)
    /\ LET correlationId == header
           entered == [requests[r] EXCEPT !.hook = "tokenLambda", !.header = header,
                                          !.correlationId = correlationId, !.body = body]
           warned == IF Truthy(correlationId) THEN 0 ELSE 1
           triggered == (IF ~Truthy(correlationId)
                         THEN loggerLog("warn", "Missing correlation ID in Token Lambda request",
                                        currentCorrelationId)
                         ELSE <<>>) \o
                        logInfo("Token Lambda triggered", correlationId)
       IN /\ setCorrelationId(correlationId)
          /\ IF ~body.present
             THEN /\ WriteLines(r, triggered)
                  /\ sent' = sent
                  /\ requests' = [requests EXCEPT ![r] =
                         [entered EXCEPT !.pc = "awaitMetric", !.statusCode = 400,
                                         !.logged = warned + 1]]
             ELSE IF ~Truthy(body.paymentData)
             THEN /\ WriteLines(r, triggered \o
                         logWarn("Token Lambda: paymentData is required", correlationId))
                  /\ sent' = sent
                  /\ requests' = [requests EXCEPT ![r] =
                         [entered EXCEPT !.pc = "awaitMetric", !.statusCode = 400,
                                         !.logged = warned + 2]]
             ELSE /\ WriteLines(r, triggered \o
                         loggerLog("info",
                                   "Token Lambda: Step 1 - Fetching OAuth token from mock backend",
                                   correlationId))
                  /\ axiosPost(r, OAuthTokenUrl, correlationId, Null)
                  /\ requests' = [requests EXCEPT ![r] =
                         [entered EXCEPT !.pc = "awaitToken", !.logged = warned + 2]]
    /\ UNCHANGED <<env, logStreamReady, nextSequenceToken, calls, sink,
                   currentRequestId, currentUserId, uuidCount>>

\* tokenLambda (lines 133-164): the OAuth token call has settled.  On success
\* the handler keeps tokenRes.data.access_token and goes on to the await of
\* the JOSE signature; a failure is logged and leaves through the outer catch.
tokenLambdaAfterToken(r, response) ==
    /\ requests[r].pc = "awaitToken" /\ requests[r].hook = "tokenLambda"
    /\ WriteLines(r, IF Resolved(response)
                     THEN loggerLog("info", "Token Lambda: Step 1 - OAuth Token received",
                                  currentCorrelationId) \o
                          loggerLog("info", "Token Lambda: Step 2 - Signing paymentData with JOSE",
                                  currentCorrelationId)
                     ELSE logError("Token Lambda: Step 1 - OAuth token fetch failed",
                                   currentCorrelationId))
    /\ requests' = [requests EXCEPT ![r] =
           IF Resolved(response)
           THEN [@ EXCEPT !.pc = "awaitSign", !.response = response,
                          !.accessToken = response.access_token, !.logged = @ + 2]
           ELSE [@ EXCEPT !.pc = "awaitMetric", !.response = response,
                          !.statusCode = handleErrorStatus(response), !.logged = @ + 1]]
    /\ UNCHANGED <<env, emitterVars, currentCorrelationId, currentRequestId,
                   currentUserId, uuidCount>>

\* Variant: the payment call goes out without the access token.
BearerOfNone(accessToken) == Bearer(Null)
\* The Authorization header of the payment call (line 184).
PaymentAuthorization(accessToken) == Bearer(accessToken)

\* tokenLambda (lines 158-188): the signature has settled.  Signed, the
\* handler sends the encrypted payload to the Mock Backend with the access
\* token as Bearer; a rejected sign() leaves through the outer catch, and
\* handleError answers 500.
tokenLambdaAfterSign(r, signed) ==
    /\ requests[r].pc = "awaitSign" /\ requests[r].hook = "tokenLambda"
    /\ UNCHANGED <<env, logStreamReady, nextSequenceToken, calls, sink,
                   currentCorrelationId, currentRequestId, currentUserId, uuidCount>>
    /\ IF signed
       THEN /\ WriteLines(r, logInfo("Token Lambda: Step 2 - JOSE signed token created",
                                     currentCorrelationId) \o
                   loggerLog("info",
                             "Token Lambda: Step 3 - Sending encrypted payload to mock backend",
                             currentCorrelationId))
            /\ axiosPost(r, ResourcesPaymentUrl, requests[r].correlationId,
                         PaymentAuthorization(requests[r].accessToken))
            /\ requests' = [requests EXCEPT ![r] =
                   [@ EXCEPT !.pc = "awaitPayment", !.signed = TRUE, !.logged = @ + 2]]
       ELSE /\ console' = console
            /\ sent' = sent
            /\ requests' = [requests EXCEPT ![r] =
                   [@ EXCEPT !.pc = "awaitMetric", !.statusCode = 500]]

\* tokenLambda (lines 190-219): the Mock Backend call has settled.
tokenLambdaAfterPayment(r, response) ==
    /\ requests[r].pc = "awaitPayment" /\ requests[r].hook = "tokenLambda"
    /\ WriteLines(r, IF Resolved(response)
                     THEN loggerLog("info", "Token Lambda: Step 3 - Mock backend response received",
                                  currentCorrelationId)
                     ELSE logError("Token Lambda: Step 3 - Mock backend call failed",
                                   currentCorrelationId))
    /\ requests' = [requests EXCEPT ![r] =
           [@ EXCEPT !.pc = "awaitMetric", !.response = response,
                     !.statusCode = IF Resolved(response) THEN 200
                                    ELSE handleErrorStatus(response),
                     !.logged = @ + 1]]
    /\ UNCHANGED <<env, emitterVars, currentCorrelationId, currentRequestId,
                   currentUserId, uuidCount>>

\* tokenLambda (lines 193-238): after the metric, the handler logs the result
\* and returns; a failure goes through the outer catch and handleError.
tokenLambdaAfterMetric(r) ==
    /\ requests[r].pc = "awaitMetric" /\ requests[r].hook = "tokenLambda"
    /\ WriteLines(r, IF requests[r].statusCode = 200
                     THEN loggerLog("info", "Token Lambda: Success", currentCorrelationId)
                     ELSE logError("Token Lambda error", currentCorrelationId) \o
                          loggerLog("error", "Error occurred in Lambda", currentCorrelationId))
    /\ requests' = [requests EXCEPT ![r] =
           [@ EXCEPT !.pc = "done", !.success = (requests[r].statusCode = 200),
                     !.logged = @ + (IF requests[r].statusCode = 200 THEN 1 ELSE 2)]]
    /\ UNCHANGED <<env, emitterVars, currentCorrelationId, currentRequestId,
                   currentUserId, uuidCount>>

\* SpecSvc: LOG_LEVEL is unset or "INFO", the spelling the emitter's own
\* default uses (cloudWatchLogger.js, line 98); CloudWatch delivery is off.
InitSvc ==
    /\ env \in [CLOUDWATCH_ENABLED : {Unset}, LOG_LEVEL : {Unset, "INFO"},
                AWS_ENVIRONMENT : {Unset}]
    /\ logStreamReady = FALSE
    /\ nextSequenceToken = Null
    /\ calls = <<>>
    /\ sent = [r \in RequestIds |-> <<>>]
    /\ sink = EmptySink
    /\ console = [r \in RequestIds |-> <<>>]
    /\ currentCorrelationId = Null
    /\ currentRequestId = Null
    /\ currentUserId = Null
    /\ requests = [r \in RequestIds |-> NewRequest]
    /\ uuidCount = 0

\* The steps of the two Lambda handlers, for requests that carry paymentData;
\* a call either gets the answer of a service that works or no connection.
NextLambda ==
    \E r \in RequestIds :
        \/ \E header \in HeaderValues(r), body \in PlainBodies :
               paymentLambda(r, header, body)
        \/ \E response \in Responses(r) \ {HttpResponse(500, Null)} :
               paymentLambdaAfterPost(r, response)
        \/ paymentLambdaAfterMetric(r)
        \/ \E header \in HeaderValues(r) :
               tokenLambda(r, header, Body(<<"undefined", "">>, PaymentData))
        \/ \E response \in Responses(r) : tokenLambdaAfterToken(r, response)
        \/ tokenLambdaAfterSign(r, TRUE)
        \/ \E response \in Responses(r) : tokenLambdaAfterPayment(r, response)
        \/ tokenLambdaAfterMetric(r)

\* The Fastify hooks of the Mock Backend: its own (server.js) and the shared
\* one, registered as the documentation writes it (part_001, line 249).
NextSvc ==
    \/ NextLambda
    \/ \E r \in RequestIds :
        \/ \E header \in HeaderValues(r) : preHandler(r, header)
        \/ \E id \in RequestIdValues(r), header \in HeaderValues(r) :
               httpLoggingMiddleware(r, id, header)

SpecSvc == InitSvc /\ [][NextSvc]_vars

\* SpecLambda: the Lambda handlers alone, with the logger at its default level.
InitLambda == InitSvc /\ env.LOG_LEVEL = Unset
SpecLambda == InitLambda /\ [][NextLambda]_vars

\* SpecToken: the Token Lambda's process handles up to MaxRequests requests,
\* interleaved at the handler's awaits; its store is the process's own.
NextToken ==
    \E r \in RequestIds :
        \/ \E header \in HeaderValues(r), body \in TokenBodies : tokenLambda(r, header, body)
        \/ \E response \in Responses(r) : tokenLambdaAfterToken(r, response)
        \/ \E signed \in BOOLEAN : tokenLambdaAfterSign(r, signed)
        \/ \E response \in Responses(r) : tokenLambdaAfterPayment(r, response)
        \/ tokenLambdaAfterMetric(r)

SpecToken == InitLambda /\ [][NextToken]_vars

\* SpecPayment: the Payment Lambda's process handles up to MaxRequests
\* requests with every kind of body, with and without a correlation header.
NextPayment ==
    \E r \in RequestIds :
        \/ \E header \in {Null, <<"cid", r>>}, body \in Bodies :
               paymentLambda(r, header, body)
        \/ \E response \in Responses(r) : paymentLambdaAfterPost(r, response)
        \/ paymentLambdaAfterMetric(r)

SpecPayment == InitLambda /\ [][NextPayment]_vars

\* SpecPaymentMetric: the same process with CLOUDWATCH_ENABLED "true", so that
\* putMetric sends its datapoints.
InitPaymentMetric ==
    /\ env = [CLOUDWATCH_ENABLED |-> "true", LOG_LEVEL |-> Unset, AWS_ENVIRONMENT |-> Unset]
    /\ logStreamReady = FALSE
    /\ nextSequenceToken = Null
    /\ calls = <<>>
    /\ sent = [r \in RequestIds |-> <<>>]
    /\ sink = EmptySink
    /\ console = [r \in RequestIds |-> <<>>]
    /\ currentCorrelationId = Null
    /\ currentRequestId = Null
    /\ currentUserId = Null
    /\ requests = [r \in RequestIds |-> NewRequest]
    /\ uuidCount = 0

SpecPaymentMetric == InitPaymentMetric /\ [][NextPayment]_vars

\* ------------------------------------------------ errorWrapper (SpecWrap)
\* Error values are those of the StructuredLogger section: an Error object
\* with its own properties, a primitive, or null/undefined (NoErrorValue).
MaxWrapCalls == 2

\* error[k] === v for a property that may be missing; a primitive has none.
PropIs(error, k, v) ==
    error.kind = "Error" /\ k \in DOMAIN error.props /\ error.props[k] = v
HasProp(error, k) == error.kind = "Error" /\ k \in DOMAIN error.props
\* error instanceof AppError
InstanceOfAppError(error) == PropIs(error, "name", "AppError")
NetworkCodes == {"ECONNREFUSED", "ENOTFOUND", "ETIMEDOUT"}
JwtNames == {"JsonWebTokenError", "TokenExpiredError"}
JwtCodes == {"ERR_JWT_EXPIRED", "ERR_JWS_SIGNATURE_VERIFICATION_FAILED"}

\* Variant: the connection test comes before the validation test.
ErrorClassNetworkFirst(error) ==
    IF \E code \in NetworkCodes : PropIs(error, "code", code) THEN "technical"
    ELSE IF PropIs(error, "isValidationError", TRUE) \/ PropIs(error, "statusCode", 400)
    THEN "validation"
    ELSE IF InstanceOfAppError(error) /\ PropIs(error, "statusCode", 422) THEN "system"
    ELSE IF HasProp(error, "response") /\ error.props.response.status >= 500 THEN "upstream"
    ELSE IF \/ \E name \in JwtNames : PropIs(error, "name", name)
            \/ \E code \in JwtCodes : PropIs(error, "code", code)
            \/ InstanceOfAppError(error) /\ PropIs(error, "statusCode", 401)
    THEN "authentication"
    ELSE IF InstanceOfAppError(error) THEN "app"
    ELSE "internal"
\* The branch of handleError that answers (lines 49, 72, 93-97, 115, 136-142,
\* 168, 195), by first match.
ErrorClass(error) ==
    IF PropIs(error, "isValidationError", TRUE) \/ PropIs(error, "statusCode", 400)
    THEN "validation"
    ELSE IF InstanceOfAppError(error) /\ PropIs(error, "statusCode", 422) THEN "system"
    ELSE IF \E code \in NetworkCodes : PropIs(error, "code", code) THEN "technical"
    ELSE IF HasProp(error, "response") /\ error.props.response.status >= 500 THEN "upstream"
    ELSE IF \/ \E name \in JwtNames : PropIs(error, "name", name)
            \/ \E code \in JwtCodes : PropIs(error, "code", code)
            \/ InstanceOfAppError(error) /\ PropIs(error, "statusCode", 401)
    THEN "authentication"
    ELSE IF InstanceOfAppError(error) THEN "app"
    ELSE "internal"

\* error.message; undefined (Null) on a primitive.
MessageOfError(error) == IF error.kind = "Error" THEN <<error.message>> ELSE Null

\* Variant: the 500 body carries the error's own message in every environment.
InternalMessageOwn(error, nodeEnv) ==
    IF MessageOfError(error) # Null THEN MessageOfError(error)
    ELSE <<"Internal server error">>
\* The message of the 500 body (lines 198-201).
InternalMessage(error, nodeEnv) ==
    IF nodeEnv = "development"
    THEN (IF MessageOfError(error) # Null THEN MessageOfError(error)
          ELSE <<"Internal server error">>)
    ELSE <<"An unexpected error occurred">>

\* fisErrorResponse (lines 8-22)
fisErrorResponse(statusCode, title, type, details, instance) ==
    [threw |-> FALSE, statusCode |-> statusCode,
     body |-> [type |-> type, title |-> title, status |-> statusCode,
               details |-> details, instance |-> instance]]
\* A TypeError leaves the function.
Threw == [threw |-> TRUE, statusCode |-> 0, body |-> EmptyObj]
NoResult == [threw |-> FALSE, statusCode |-> 0, body |-> EmptyObj]

\* handleError (lines 27-212) with instance "/api/v1/payment".  On null or
\* undefined the property reads of the logging block throw inside its try
\* (lines 32-43), and the read error.isValidationError of line 49 throws
\* outside any try.
handleError(error, nodeEnv) ==
    LET class == ErrorClass(error)
        message == MessageOfError(error)
    IN IF error.kind = "none" THEN Threw
       ELSE CASE class = "validation" ->
                   fisErrorResponse(400, "Validation failed", "api-validation",
                                    [message |-> message], "/api/v1/payment")
              [] class = "system" ->
                   fisErrorResponse(422, "Host validation failed", "system-validation",
                                    [message |-> message], "/api/v1/payment/downstream")
              [] class = "technical" ->
                   fisErrorResponse(503, "Downstream service unavailable", "technical",
                                    [message |-> <<"Failed to connect to backend service">>],
                                    "/api/v1/payment/downstream")
              [] class = "upstream" ->
                   fisErrorResponse(503, "Downstream service unavailable", "technical",
                                    [message |-> <<"External service unavailable">>],
                                    "/api/v1/payment/downstream")
              [] class = "authentication" ->
                   fisErrorResponse(401, "Authentication failed", "authentication",
                                    [message |->
                                        IF PropIs(error, "name", "TokenExpiredError")
                                        THEN <<"Token expired">>
                                        ELSE <<"Invalid or missing authentication token">>],
                                    "/api/v1/payment")
              [] class = "app" ->
                   fisErrorResponse(error.props.statusCode, "Error",
                                    IF error.props.statusCode = 422 THEN "system-validation"
                                    ELSE "technical",
                                    [message |-> message], "/api/v1/payment")
              [] OTHER ->
                   fisErrorResponse(500, "Internal server error", "internal",
                                    [message |-> InternalMessage(error, nodeEnv)],
                                    "/api/v1/payment")

\* The errors a handler rejects with and a route throws.
ThrownValues ==
    {ErrorObject("boom", EmptyObj),
     ErrorObject("secret at 10.0.0.7", EmptyObj),
     ErrorObject("amount is required", [isValidationError |-> TRUE]),
     AppError("paymentData is required", 400, "MISSING_BODY"),
     AppError("not eligible", 422, "ELIGIBILITY_FAILED"),
     ErrorObject("connect ECONNREFUSED", [code |-> "ECONNREFUSED"]),
     ErrorObject("timeout", [code |-> "ETIMEDOUT", statusCode |-> 400]),
     ErrorObject("bad gateway", [response |-> [status |-> 502]]),
     ErrorObject("unauthorized upstream", [response |-> [status |-> 401]]),
     ErrorObject("jwt malformed", [name |-> "JsonWebTokenError"]),
     ErrorObject("jwt expired", [name |-> "TokenExpiredError", response |-> [status |-> 500]]),
     AppError("no token", 401, "UNAUTHORIZED"),
     AppError("conflict", 409, "CONFLICT"),
     PlainValue("oops"),
     NoErrorValue}

\* The handler's own response, returned unchanged.
HandlerResult == [threw |-> FALSE, statusCode |-> 200, body |-> [success |-> TRUE]]

WrapFrame(op, settled, error) ==
    [op |-> op, pc |-> "awaitHandler", settled |-> settled, error |-> error,
     logged |-> <<>>, metrics |-> <<>>, result |-> NoResult, rejected |-> FALSE]

\* The function wrap returns is called (lines 248-250): it awaits the
\* handler, which resolves or rejects with error.
wrap(settled, error) ==
    /\ Len(calls) < MaxWrapCalls
    /\ calls' = Append(calls, WrapFrame("wrap", settled, error))
    /\ UNCHANGED <<env, logStreamReady, nextSequenceToken, sent, console, sink, contextVars>>

\* wrap, lines 250-256: the handler has settled.  Resolved, its result is
\* returned; rejected, the catch logs and awaits the LambdaHandlerError metric.
wrapAfterHandler(c) ==
    /\ c \in DOMAIN calls /\ calls[c].op = "wrap" /\ calls[c].pc = "awaitHandler"
    /\ calls' = [calls EXCEPT ![c] =
           IF calls[c].settled = "resolved"
           THEN [@ EXCEPT !.pc = "done", !.result = HandlerResult]
           ELSE [@ EXCEPT !.pc = "awaitMetric",
                          !.logged = Append(@, "Lambda handler uncaught error"),
                          !.metrics = Append(@, "LambdaHandlerError")]]
    /\ UNCHANGED <<env, logStreamReady, nextSequenceToken, sent, console, sink, contextVars>>

\* wrap, line 262: putMetric has returned, sent or not (it never rejects);
\* handleError logs when it can read the error and builds the response.  When
\* handleError throws, the returned promise rejects.
wrapAfterMetric(c) ==
    /\ c \in DOMAIN calls /\ calls[c].op = "wrap" /\ calls[c].pc = "awaitMetric"
    /\ LET response == handleError(calls[c].error, env.NODE_ENV)
       IN calls' = [calls EXCEPT ![c] =
              [@ EXCEPT !.pc = "done", !.result = response, !.rejected = response.threw,
                        !.logged = IF calls[c].error.kind = "none" THEN @
                                   ELSE Append(@, "Error occurred in Lambda")]]
    /\ UNCHANGED <<env, logStreamReady, nextSequenceToken, sent, console, sink, contextVars>>

\* The Mock Backend's global error handler (server.js, lines 51-58).
setErrorHandler(error) ==
    /\ Len(calls) < MaxWrapCalls
    /\ calls' = Append(calls,
           [WrapFrame("setErrorHandler", "rejected", error) EXCEPT
               !.pc = "done", !.logged = <<"Fastify error">>,
               !.result = [threw |-> FALSE, statusCode |-> 500,
                           body |-> [error |-> "Internal Server Error"]]])
    /\ UNCHANGED <<env, logStreamReady, nextSequenceToken, sent, console, sink, contextVars>>

NodeEnvValues == {Unset, "development", "production"}

InitWrap ==
    /\ env \in [CLOUDWATCH_ENABLED : {Unset}, LOG_LEVEL : {Unset}, AWS_ENVIRONMENT : {Unset},
                NODE_ENV : NodeEnvValues]
    /\ logStreamReady = FALSE
    /\ nextSequenceToken = Null
    /\ calls = <<>>
    /\ sent = <<>>
    /\ sink = EmptySink
    /\ console = <<>>
    /\ currentCorrelationId = Null
    /\ currentRequestId = Null
    /\ currentUserId = Null
    /\ requests = <<>>
    /\ uuidCount = 0

NextWrap ==
    \/ wrap("resolved", NoErrorValue)
    \/ \E error \in ThrownValues : wrap("rejected", error)
    \/ \E c \in 1..MaxWrapCalls : wrapAfterHandler(c)
    \/ \E c \in 1..MaxWrapCalls : wrapAfterMetric(c)
    \/ \E error \in ThrownValues : setErrorHandler(error)

SpecWrap == InitWrap /\ [][NextWrap]_vars

\* ------------------------------------- process-level handlers (SpecProcess)
\* The process of a Lambda: requests holds its state (the global flag, the
\* listeners installed per event, the pending exit timers, the exit code),
\* calls the events it has seen, up to MaxEvents.
MaxEvents == 4
NotExited == 0 - 1
NewProcess == [registered |-> FALSE, unhandledRejection |-> 0, uncaughtException |-> 0,
               timers |-> 0, exitCode |-> NotExited]
Running == requests.exitCode = NotExited
EventFrame(op, error, logged, metrics) ==
    [op |-> op, error |-> error, logged |-> logged, metrics |-> metrics]
MayHappen == Running /\ Len(calls) < MaxEvents

\* Variant: the flag is not consulted.
AlreadyRegisteredNever == FALSE
\* if (global.__errorHandlersRegistered) return (line 215)
AlreadyRegistered == requests.registered

\* registerProcessLevelHandlers (lines 214-243), called directly or by wrap
\* (line 246): it installs one listener per event unless the flag is set.
registerProcessLevelHandlers(via) ==
    /\ MayHappen
    /\ calls' = Append(calls, EventFrame(via, NoErrorValue, 0, <<>>))
    /\ requests' = IF AlreadyRegistered THEN requests
                   ELSE [requests EXCEPT !.registered = TRUE,
                                         !.unhandledRejection = @ + 1,
                                         !.uncaughtException = @ + 1]
    /\ UNCHANGED <<env, logStreamReady, nextSequenceToken, sent, console, sink,
                   currentCorrelationId, currentRequestId, currentUserId, uuidCount>>

\* The unhandledRejection listeners run (lines 218-226): each logs the reason
\* (guarded against null) and calls putMetric, whose rejection is swallowed.
unhandledRejection(reason) ==
    /\ MayHappen /\ requests.unhandledRejection > 0
    /\ calls' = Append(calls, EventFrame("unhandledRejection", reason,
                                         requests.unhandledRejection,
                                         [i \in 1..requests.unhandledRejection |->
                                             "UnhandledRejection"]))
    /\ UNCHANGED <<env, logStreamReady, nextSequenceToken, sent, console, sink, contextVars>>

\* The uncaughtException listeners run (lines 228-242): each reads
\* err.message inside the try, so on null or undefined neither the log nor
\* the metric call is made; whatever happened in the try, the listener then
\* sets the timer that exits.
uncaughtException(err) ==
    /\ MayHappen /\ requests.uncaughtException > 0
    /\ LET n == requests.uncaughtException
           reported == err.kind # "none"
       IN /\ calls' = Append(calls, EventFrame("uncaughtException", err,
                                               IF reported THEN n ELSE 0,
                                               IF reported
                                               THEN [i \in 1..n |-> "UncaughtException"]
                                               ELSE <<>>))
          /\ requests' = [requests EXCEPT !.timers = @ + n]
    /\ UNCHANGED <<env, logStreamReady, nextSequenceToken, sent, console, sink,
                   currentCorrelationId, currentRequestId, currentUserId, uuidCount>>

\* setTimeout(() => process.exit(1), 1000) fires (line 238).
exitTimer ==
    /\ Running /\ requests.timers > 0
    /\ requests' = [requests EXCEPT !.exitCode = 1]
    /\ UNCHANGED <<env, logStreamReady, nextSequenceToken, calls, sent, console, sink,
                   currentCorrelationId, currentRequestId, currentUserId, uuidCount>>

ProcessErrors == {ErrorObject("boom", EmptyObj), PlainValue("oops"), NoErrorValue}

InitProcess ==
    /\ env \in [CLOUDWATCH_ENABLED : {"true", Unset}, LOG_LEVEL : {Unset},
                AWS_ENVIRONMENT : {Unset}]
    /\ logStreamReady = FALSE
    /\ nextSequenceToken = Null
    /\ calls = <<>>
    /\ sent = <<>>
    /\ sink = EmptySink
    /\ console = <<>>
    /\ currentCorrelationId = Null
    /\ currentRequestId = Null
    /\ currentUserId = Null
    /\ requests = NewProcess
    /\ uuidCount = 0

NextProcess ==
    \/ \E via \in {"registerProcessLevelHandlers", "wrap"} : registerProcessLevelHandlers(via)
    \/ \E reason \in ProcessErrors : unhandledRejection(reason)
    \/ \E err \in ProcessErrors : uncaughtException(err)
    \/ exitTimer

\* The timer's callback runs once its delay has passed: the event loop is
\* not blocked by the listeners, which return at once.
SpecProcess == InitProcess /\ [][NextProcess]_vars /\ WF_vars(exitTimer)

\* ---------------------------------------- Mock Backend routes (SpecBackend)
\* A request to the Mock Backend: the route it is for, the Authorization
\* header or the credentials it carries, and the reply it gets.
NewBackendRequest == [pc |-> "new", route |-> "", authorization |-> Null,
                      client_id |-> Unset, client_secret |-> Unset,
                      statusCode |-> 0, access_token |-> Null, logged |-> 0]

\* The body of a POST /oauth/token: a credential that is absent is Unset.
ClientIds == {"poc-client", "other-client", Unset}
ClientSecrets == {"poc-secret", "wrong-secret", Unset}
\* tokenSchema (auth.js, lines 10-19): client_id and client_secret are required.
tokenSchema(client_id, client_secret) == client_id # Unset /\ client_secret # Unset
\* client_id !== "poc-client" || client_secret !== "poc-secret" (auth.js, line 30)
InvalidClient(client_id, client_secret) ==
    client_id # "poc-client" \/ client_secret # "poc-secret"

\* POST /oauth/token.  A body the schema rejects never reaches the handler:
\* Fastify hands the validation error to the server's error handler, which
\* replies 500 (server.js, lines 51-58).  Otherwise the handler of auth.js,
\* lines 23-59, replies 401 or signs a token.
oauthToken(r, client_id, client_secret) ==
    /\ RequestMayStart(r)
    /\ UNCHANGED <<env, emitterVars, currentCorrelationId, currentRequestId,
                   currentUserId, uuidCount>>
    /\ LET answer ==
               IF ~tokenSchema(client_id, client_secret)
               THEN [statusCode |-> 500, access_token |-> Null, message |-> "Fastify error"]
               ELSE IF InvalidClient(client_id, client_secret)
               THEN [statusCode |-> 401, access_token |-> Null,
                     message |-> "Invalid OAuth credentials"]
               ELSE [statusCode |-> 200, access_token |-> JwtSign(r),
                     message |-> "OAuth token generated successfully"]
       IN /\ requests' = [requests EXCEPT ![r] =
                 [@ EXCEPT !.pc = "reply", !.route = "/oauth/token",
                           !.client_id = client_id, !.client_secret = client_secret,
                           !.statusCode = answer.statusCode,
                           !.access_token = answer.access_token, !.logged = 1]]
          /\ console' = [console EXCEPT ![r] = @ \o
                 LoggerLines(IF answer.statusCode = 200 THEN "info"
                             ELSE IF answer.statusCode = 401 THEN "warn" ELSE "error",
                             answer.message, EmptyObj,
                             currentCorrelationId, currentRequestId, currentUserId)]

\* The preHandler hook of resourceRoutes (part_002, lines 16-27): a request
\* whose token does not verify is answered 401 and its handler is not run.
resourceRoutesPreHandler(r, authorization) ==
    /\ RequestMayStart(r)
    /\ UNCHANGED <<env, emitterVars, console, currentCorrelationId, currentRequestId,
                   currentUserId, uuidCount>>
    /\ requests' = [requests EXCEPT ![r] =
           IF JwtVerify(authorization)
           THEN [@ EXCEPT !.pc = "handler", !.route = "/resources/payment",
                          !.authorization = authorization]
           ELSE [@ EXCEPT !.pc = "reply", !.route = "/resources/payment",
                          !.authorization = authorization, !.statusCode = 401]]

\* processPayment (part_002, lines 59 and 75) has run for a request that is
\* answered 200 by the route.
Processed(r) ==
    /\ requests[r].route = "/resources/payment"
    /\ requests[r].pc = "reply" /\ requests[r].statusCode = 200

\* The Authorization headers a caller can send: none, a token the Mock
\* Backend issued, or one it did not sign.
Authorizations ==
    {Null, Bearer(<<"forged", 0>>)} \cup
    {Bearer(requests[q].access_token) : q \in {q \in RequestIds : requests[q].statusCode = 200
                                                   /\ requests[q].route = "/oauth/token"}}

InitBackend ==
    /\ env \in [CLOUDWATCH_ENABLED : {Unset}, LOG_LEVEL : {Unset, "error"},
                AWS_ENVIRONMENT : {Unset}]
    /\ logStreamReady = FALSE
    /\ nextSequenceToken = Null
    /\ calls = <<>>
    /\ sent = <<>>
    /\ sink = EmptySink
    /\ console = [r \in RequestIds |-> <<>>]
    /\ currentCorrelationId = Null
    /\ currentRequestId = Null
    /\ currentUserId = Null
    /\ requests = [r \in RequestIds |-> NewBackendRequest]
    /\ uuidCount = 0

NextBackend ==
    \E r \in RequestIds :
        \/ \E client_id \in ClientIds, client_secret \in ClientSecrets :
               oauthToken(r, client_id, client_secret)
        \/ \E authorization \in Authorizations : resourceRoutesPreHandler(r, authorization)
        \/ \E encrypted \in BOOLEAN : resourcesPayment(r, encrypted)
        \/ \E verified \in BOOLEAN : resourcesPaymentAfterVerify(r, verified)

SpecBackend == InitBackend /\ [][NextBackend]_vars

\* =================================================================== claims
Range(seq) == {seq[i] : i \in DOMAIN seq}
Count(seq, x) == Cardinality({i \in DOMAIN seq : seq[i] = x})
Lines(c, chan) == {i \in DOMAIN console[c] : console[c][i].chan = chan}
Events(c) == {i \in DOMAIN sink.events : sink.events[i].call = c}
Metrics(c) == {i \in DOMAIN sink.metrics : sink.metrics[i].call = c}
Returned(c) == calls[c].pc = "done"

\* ---- C1 ----
\* Request isolation: every record a request's handling logs after it has
\* resumed from a suspension (the records after jwtVerify and the HTTP Response
\* record) carries the correlation id the request's pre-handling hook set.
AfterResumeMessages == {"JOSE token verified successfully", "JOSE verification failed",
                        "HTTP Response"}
C1_RequestIsolation ==
    \A r \in RequestIds : \A i \in DOMAIN console[r] :
        console[r][i].text.message \in AfterResumeMessages
            => console[r][i].text.cid = requests[r].correlationId

\* ---- C2 ----
\* Console-always: every logger call made so far has written exactly one
\* console line, whatever LOG_LEVEL and CLOUDWATCH_ENABLED are.
C2_ConsoleAlways ==
    \A r \in RequestIds : Len(console[r]) = requests[r].logged

\* ---- C3 ----
\* Remote gating: a log call sends remote commands if and only if
\* CLOUDWATCH_ENABLED is "true" and its level is at or above the configured
\* minimum (ERROR > WARN > INFO > DEBUG, default INFO); a call that has
\* returned has attempted PutLogEvents exactly in that case.
Severity == [ERROR |-> 4, WARN |-> 3, INFO |-> 2, DEBUG |-> 1]
MinimumSeverity == IF env.LOG_LEVEL = Unset THEN Severity["INFO"] ELSE Severity[env.LOG_LEVEL]
ShouldShip(c) ==
    env.CLOUDWATCH_ENABLED = "true" /\ Severity[calls[c].level] >= MinimumSeverity
C3_RemoteGating ==
    \A c \in CallIds : calls[c].op = "log" =>
        /\ (sent[c] # <<>>) <=> ShouldShip(c)
        /\ Returned(c) => (("PutLogEvents" \in Range(sent[c])) <=> ShouldShip(c))
C3_Witness ==
    /\ env.CLOUDWATCH_ENABLED = "true" /\ env.LOG_LEVEL = "ERROR"
    /\ \E c, d \in CallIds :
        /\ Returned(c) /\ calls[c].level = "ERROR" /\ "PutLogEvents" \in Range(sent[c])
        /\ Returned(d) /\ calls[d].level = "WARN" /\ sent[d] = <<>>

\* ---- C4 ----
\* Emission never throws: no call ends rejected, and a call that has returned
\* has written one diagnostic line to the console if its remote write
\* (PutLogEvents, PutMetricData) was sent and not accepted, and none otherwise.
RemoteWriteFailed(c) ==
    \/ "PutLogEvents" \in Range(sent[c]) /\ Events(c) = {}
    \/ "PutMetricData" \in Range(sent[c]) /\ Metrics(c) = {}
C4_EmissionNeverThrows ==
    \A c \in CallIds :
        /\ calls[c].pc # "rejected"
        /\ Returned(c) =>
               Cardinality(Lines(c, "error")) = IF RemoteWriteFailed(c) THEN 1 ELSE 0
\* Every remote command of a log call and of a metric call has failed, and
\* each of the two calls has returned with its one diagnostic line.
C4_Witness ==
    /\ sink = EmptySink
    /\ \E c, d \in CallIds :
        /\ calls[c].op = "log" /\ Returned(c) /\ Len(sent[c]) = 3
        /\ Cardinality(Lines(c, "error")) = 1
        /\ calls[d].op = "metric" /\ Returned(d) /\ Len(sent[d]) = 1
        /\ Cardinality(Lines(d, "error")) = 1

\* ---- C5 ----
\* Stale-token single retry: a log call whose append failed with a stale
\* sequence token has sent exactly one DescribeLogStreams and exactly one
\* PutLogEvents, and its record is in the remote stream at most once.
C5_StaleTokenSingleRetry ==
    \A c \in CallIds :
        (calls[c].error = StaleMsg /\ calls[c].pc \in {"awaitDescribe", "done"}) =>
            /\ Count(sent[c], "DescribeLogStreams") = 1
            /\ Count(sent[c], "PutLogEvents") = 1
            /\ Cardinality(Events(c)) <= 1
\* A stale-token failure whose re-resolution succeeded: the cached token is the
\* stream's current one again.
C5_Witness ==
    \E c \in CallIds :
        /\ Returned(c) /\ calls[c].error = StaleMsg
        /\ calls[c].streams.state = "ok"
        /\ nextSequenceToken = UploadSequenceToken(sink)
        /\ nextSequenceToken # Null

\* ---- C6 ----
\* Bounded remote work per log call: whatever fails, a call sends every
\* command at most once, in the order CreateLogGroup, CreateLogStream,
\* PutLogEvents, DescribeLogStreams, and a call that is still suspended can
\* always take its next step.
CommandOrder == <<"CreateLogGroup", "CreateLogStream", "PutLogEvents",
                  "DescribeLogStreams", "PutMetricData">>
Position(cmd) == CHOOSE i \in DOMAIN CommandOrder : CommandOrder[i] = cmd
C7_PutCarriesCurrentToken ==
    [][\A c \in CallIds :
          (calls[c].pc # "awaitPut" /\ calls'[c].pc = "awaitPut")
              => calls'[c].token = UploadSequenceToken(sink')]_vars

\* ---- C8 ----
\* Token state machine (as claimed): when the handling of a stale-token failure
\* ends, nextSequenceToken is the first described stream's uploadSequenceToken,
\* or null when the describe call failed or returned no stream.
DescribedToken(r, otherwise) ==
    IF r.state = "ok" /\ Len(r.body) > 0 THEN r.body[1].uploadSequenceToken ELSE otherwise
StaleHandlingBegins(c) == calls[c].pc = "awaitPut" /\ calls'[c].pc = "awaitDescribe"
StaleHandlingEnds(c) == calls[c].pc = "awaitDescribe" /\ calls'[c].pc = "done"
C8_NullWhenDescribeFails ==
    [][\A c \in CallIds :
          StaleHandlingEnds(c)
              => nextSequenceToken' = DescribedToken(calls'[c].streams, Null)]_vars
\* Token state machine (amended): nextSequenceToken changes only in the steps
\* of a stale-token handling; the handling sets it to null when it begins and,
\* when it ends, to the first described stream's uploadSequenceToken, or leaves
\* it as it is when the describe call failed or returned no stream.
C8_TokenStateMachine ==
    [][/\ nextSequenceToken' # nextSequenceToken
          => \E c \in CallIds : StaleHandlingBegins(c) \/ StaleHandlingEnds(c)
       /\ \A c \in CallIds :
          /\ StaleHandlingBegins(c) => nextSequenceToken' = Null
          /\ StaleHandlingEnds(c)
              => nextSequenceToken' = DescribedToken(calls'[c].streams, nextSequenceToken)]_vars
\* A handling that ended with a failed describe call and a token another
\* call's handling had stored meanwhile.
C8_Witness ==
    \E c \in CallIds :
        /\ Returned(c) /\ calls[c].error = StaleMsg
        /\ calls[c].streams.state = "error"
        /\ nextSequenceToken # Null

\* ---- C9 ----
\* Non-stale remote failure: a step in which PutLogEvents returns never ends the
\* call rejected; it sends DescribeLogStreams only for a stale-token error; and
\* when it ends the call on an error it sends nothing, writes one line to the
\* error console and leaves nextSequenceToken, logStreamReady and the sink as
\* they are.
PutReturns(c) == calls[c].pc = "awaitPut" /\ calls'[c].pc # "awaitPut"
C9_NonStaleFailure ==
    [][\A c \in CallIds : PutReturns(c) =>
          /\ calls'[c].pc # "rejected"
          /\ calls'[c].pc = "awaitDescribe" => calls'[c].error = StaleMsg
          /\ (calls'[c].pc = "done" /\ calls'[c].error # NoError) =>
                /\ calls'[c].error # StaleMsg
                /\ sent'[c] = sent[c]
                /\ nextSequenceToken' = nextSequenceToken
                /\ logStreamReady' = logStreamReady
                /\ sink' = sink
                /\ Len(console'[c]) = Len(console[c]) + 1
                /\ console'[c][Len(console'[c])].chan = "error"]_vars
C9_Witness ==
    \E c \in CallIds :
        /\ Returned(c) /\ calls[c].error = NetworkMsg /\ calls[c].op = "log"
        /\ nextSequenceToken # Null

\* ---- C10 ----
\* Disabled means no remote traffic: while CLOUDWATCH_ENABLED is not exactly
\* "true", no call sends a remote command, the sink is untouched and
\* logStreamReady and nextSequenceToken keep their initial values.
C10_DisabledNoRemoteTraffic ==
    env.CLOUDWATCH_ENABLED # "true" =>
        /\ \A c \in CallIds : sent[c] = <<>>
        /\ sink = EmptySink
        /\ logStreamReady = FALSE
        /\ nextSequenceToken = Null
\* The three kinds of call have all been made and have returned with
\* CLOUDWATCH_ENABLED set to "false".
C10_Witness ==
    /\ env.CLOUDWATCH_ENABLED = "false"
    /\ \A op \in {"init", "log", "metric"} :
           \E c \in CallIds : calls[c].op = op /\ Returned(c)

\* ---- C11 ----
\* putMetric with remote reporting disabled is a no-op: the step in which the
\* call is made ends the call, sends no command, writes nothing to the console
\* and changes no module state, whatever the arguments are.
PutMetricCalled(c) == calls[c].pc = "idle" /\ calls'[c].op = "metric"
C11_PutMetricDisabledNoOp ==
    [][\A c \in CallIds :
          (PutMetricCalled(c) /\ env.CLOUDWATCH_ENABLED # "true") =>
              /\ calls'[c].pc = "done"
              /\ sent' = sent /\ console' = console /\ sink' = sink
              /\ logStreamReady' = logStreamReady
              /\ nextSequenceToken' = nextSequenceToken
              /\ UNCHANGED <<currentCorrelationId, currentRequestId, currentUserId>>]_vars
\* Two disabled calls with different arguments have returned.
C11_Witness ==
    /\ env.CLOUDWATCH_ENABLED = "false"
    /\ \E c, d \in CallIds :
        /\ Returned(c) /\ Returned(d) /\ calls[c].op = "metric" /\ calls[d].op = "metric"
        /\ calls[c].args.dimensions = <<>> /\ calls[c].args.unit = Unset
        /\ calls[d].args.dimensions # <<>> /\ calls[d].args.unit # Unset

\* ---- C12 ----
\* putMetric with remote reporting enabled sends PutMetricData exactly once,
\* with one datapoint of the given name, value and unit (Count when omitted)
\* whose dimensions are Environment (AWS_ENVIRONMENT, "local-dev" when unset)
\* followed by the caller's dimensions in order; every accepted call has its
\* own datapoint in the sink.
ExpectedEnvironment == IF env.AWS_ENVIRONMENT = Unset THEN "local-dev" ELSE env.AWS_ENVIRONMENT
ExpectedDatum(args) ==
    [MetricName |-> args.metricName,
     Value |-> args.value,
     Unit |-> IF args.unit = Unset THEN "Count" ELSE args.unit,
     Dimensions |-> <<[Name |-> "Environment", Value |-> ExpectedEnvironment]>>
                    \o args.dimensions]
C12_PutMetricOneDatapoint ==
    \A c \in CallIds :
        (calls[c].op = "metric" /\ env.CLOUDWATCH_ENABLED = "true") =>
            /\ sent[c] = <<"PutMetricData">>
            /\ calls[c].entry = ExpectedDatum(calls[c].args)
            /\ \A i \in Metrics(c) : sink.metrics[i].datum = ExpectedDatum(calls[c].args)
            /\ Cardinality(Metrics(c)) <= 1
            /\ (Returned(c) /\ calls[c].error = NoError) => Cardinality(Metrics(c)) = 1
\* Two interleaved calls, both accepted: one with the default unit and two
\* caller dimensions, under a configured environment name.
C12_Witness ==
    /\ env.AWS_ENVIRONMENT = "prod"
    /\ Len(sink.metrics) = 2
    /\ sent[2] # <<>> /\ sink.metrics[1].call = 2
    /\ \E c \in CallIds :
        /\ Returned(c) /\ calls[c].args.unit = Unset
        /\ Len(calls[c].args.dimensions) = 2
        /\ Len(sink.metrics[CHOOSE i \in Metrics(c) : TRUE].datum.Dimensions) = 3

\* ---- C16 ----
\* Context Store semantics: each getter returns the argument of the most
\* recent call of its own setter, null when there was none, whatever calls of
\* the other setters were made in between; the store holds, for each field,
\* the argument of the most recent call of that field's setter.
SetterCallsBefore(field, n) ==
    {i \in 1..(n - 1) : calls[i].op = "set" /\ calls[i].level = field}
Max(S) == CHOOSE x \in S : \A y \in S : y <= x
MostRecentlySet(field, n) ==
    IF SetterCallsBefore(field, n) = {} THEN Null
    ELSE calls[Max(SetterCallsBefore(field, n))].args[1]
LoggerCalls == {n \in DOMAIN calls : calls[n].op = "logger"}
C13_ContextInjection ==
    \A n \in LoggerCalls :
        Truthy(calls[n].args.correlationId) =>
            /\ Len(console[n]) = 1
            /\ console[n][1].text.cid = calls[n].args.correlationId
            /\ calls[n].args.requestId = Null =>
                   /\ console[n][1].text.rid = Null
                   /\ "requestId" \notin DOMAIN calls[n].entry
            /\ calls[n].args.userId = Null =>
                   /\ "userId" \notin DOMAIN console[n][1].text.meta
                   /\ "userId" \notin DOMAIN calls[n].entry

\* ---- C14 ----
\* Context override: a record written for a call whose metadata has the key
\* correlationId carries the caller's value, locally and remotely, and a
\* record of a call without that key carries the store's value.
CallerCorrelationId(n) ==
    IF "correlationId" \in DOMAIN calls[n].args.metadata
    THEN calls[n].args.metadata.correlationId
    ELSE calls[n].args.correlationId
C14_ContextOverride ==
    \A n \in DOMAIN calls :
        /\ \A i \in DOMAIN console[n] : console[n][i].text.cid = CallerCorrelationId(n)
        /\ \A i \in DOMAIN sent[n] : sent[n][i].correlationId = CallerCorrelationId(n)

\* ---- C15 ----
\* correlationId presence: a record written for a log call has a correlationId
\* field if and only if the store held a correlation id when the call was made;
\* this holds of the console line (its CID tag) and of the JSON record queued
\* for the remote sink.
C15_CorrelationIdPresence ==
    \A n \in DOMAIN calls :
        /\ \A i \in DOMAIN console[n] :
               (console[n][i].text.cid # Null) <=> Truthy(calls[n].args.correlationId)
        /\ \A i \in DOMAIN sent[n] :
               ("correlationId" \in DOMAIN sent[n][i]) <=> Truthy(calls[n].args.correlationId)

\* ---- C17 ----
\* userId is absent until set for the request: with requests handled one
\* after the other, a record of a request carries a userId only if it is the
\* one that request's own handler set.
C17_UserIdOfOwnRequest ==
    \A r \in RequestIds : \A i \in DOMAIN console[r] :
        "userId" \in DOMAIN console[r][i].text.meta
            => console[r][i].text.meta.userId = requests[r].userId

\* ---- C18 ----
\* Boundary hook guarantees an id: a step in which the pre-handling hook of a
\* Fastify request runs, whatever its x-correlation-id header (absent and
\* empty included), leaves the store with a non-empty correlationId and a
\* non-empty requestId, and the request object holds the same two values.
FastifyHooks == {"preHandler", "httpLoggingMiddleware"}
HookRuns(r) ==
    requests[r].pc = "new" /\ requests'[r].pc # "new" /\ requests'[r].hook \in FastifyHooks
C18_BoundaryHookGuaranteesId ==
    [][\A r \in RequestIds : HookRuns(r) =>
          /\ Truthy(currentCorrelationId') /\ Truthy(currentRequestId')
          /\ requests'[r].correlationId = currentCorrelationId'
          /\ requests'[r].requestId = currentRequestId']_vars

\* ---- C19 ----
\* Downstream services never fabricate an id: when the Token Lambda or the
\* Mock Backend takes in a request whose x-correlation-id header is absent or
\* empty, it logs a warning and leaves the store without a correlation id, and
\* no outbound call of that request ever carries one.
DownstreamEntries == {"tokenLambda", "preHandler", "httpLoggingMiddleware"}
EntryRuns(r) ==
    requests[r].pc = "new" /\ requests'[r].pc # "new" /\ requests'[r].hook \in DownstreamEntries
WarningLogged(lines) == \E i \in DOMAIN lines : lines[i].text.level = "warn"
C19_DownstreamNeverFabricates ==
    [][\A r \in RequestIds :
          /\ (EntryRuns(r) /\ ~Truthy(requests'[r].header)) =>
                 WarningLogged(console'[r]) /\ ~Truthy(currentCorrelationId')
          /\ (requests'[r].hook \in DownstreamEntries /\ ~Truthy(requests'[r].header)) =>
                 \A i \in DOMAIN sent'[r] : ~Truthy(sent'[r][i].correlationId)]_vars

\* ---- C20 ----
\* Verbatim forwarding: every outbound HTTP call a Payment Lambda or Token
\* Lambda request has made carries, as x-correlation-id, the id resolved at
\* that request's entry: the inbound header when it has one, else the id the
\* Payment Lambda generated at entry (a UUID), else, in the Token Lambda, the
\* absent value it received; whatever other requests wrote to the store
\* in between.
LambdaEntries == {"paymentLambda", "tokenLambda"}
IsUuid(id) == \E n \in 1..uuidCount : id = Uuid(n)
ForwardedIds(r) == {sent[r][i].correlationId : i \in DOMAIN sent[r]}
C20_VerbatimForwarding ==
    \A r \in RequestIds : requests[r].hook \in LambdaEntries =>
        /\ sent[r] # <<>>
        /\ IF Truthy(requests[r].header) \/ requests[r].hook = "tokenLambda"
           THEN ForwardedIds(r) = {requests[r].header}
           ELSE \E id \in ForwardedIds(r) : ForwardedIds(r) = {id} /\ IsUuid(id)
\* A Token Lambda request made its second outbound call while the store held
\* another request's id (the line logged with the call shows the store).
C20_Witness ==
    \E r \in RequestIds :
        /\ requests[r].hook = "tokenLambda" /\ Truthy(requests[r].header)
        /\ Len(sent[r]) = 2 /\ sent[r][2].correlationId = requests[r].header
        /\ \E i \in DOMAIN console[r] :
               /\ console[r][i].text.message =
                      "Token Lambda: Step 3 - Sending encrypted payload to mock backend"
               /\ console[r][i].text.cid # requests[r].header

\* ---- C21 ----
\* End-to-end trace: every log record emitted while handling one logical
\* request carries the request's correlation id.  In the Token Lambda, which
\* the Payment Lambda always calls with the id as x-correlation-id, every
\* record of a request that came with the header carries the header's value.
C21_EndToEndTrace ==
    \A r \in RequestIds :
        (requests[r].hook = "tokenLambda" /\ Truthy(requests[r].header)) =>
            \A i \in DOMAIN console[r] : console[r][i].text.cid = requests[r].header

\* ---- C22 ----
\* Service Logger collision rule: in every record written for a call of a
\* StructuredLogger method, the service field is the name the logger was
\* constructed with, whatever the caller's metadata holds, and a correlationId
\* in the caller's metadata is the record's correlationId.
StructuredOps == {"info", "error", "performance"}
C22_CollisionRule ==
    \A n \in DOMAIN calls : calls[n].op \in StructuredOps =>
        \A i \in DOMAIN console[n] :
            LET line == console[n][i].text
                metadata == calls[n].args.metadata
            IN /\ line.meta.service = ServiceName
               /\ "correlationId" \in DOMAIN metadata =>
                      line.cid = metadata.correlationId

\* ---- C23 ----
\* performance(): the record is written at warn exactly when the duration is
\* greater than 5000 and at info otherwise; it has the fields operation and
\* durationMs, equal to the arguments unless the caller's metadata has a key of
\* that name, whose value then wins.
PerformanceLines ==
    {<<n, i>> \in (DOMAIN calls) \X (1..1) :
        calls[n].op = "performance" /\ i \in DOMAIN console[n]}
ExpectedField(n, key, value) ==
    IF key \in DOMAIN calls[n].args.metadata THEN calls[n].args.metadata[key] ELSE value
C23_PerformanceRecord ==
    \A p \in PerformanceLines :
        LET n == p[1]
            line == console[n][p[2]].text
        IN /\ line.level = (IF calls[n].args.duration > PerformanceThreshold
                            THEN "warn" ELSE "info")
           /\ line.meta.operation = ExpectedField(n, "operation", calls[n].args.operationName)
           /\ line.meta.durationMs = ExpectedField(n, "durationMs", calls[n].args.duration)
\* As claimed: operation and durationMs equal the arguments whatever the metadata.
C23_PerformanceFieldsAlwaysOwn ==
    \A p \in PerformanceLines :
        LET n == p[1]
            line == console[n][p[2]].text
        IN /\ line.level = (IF calls[n].args.duration > PerformanceThreshold
                            THEN "warn" ELSE "info")
           /\ line.meta.operation = calls[n].args.operationName
           /\ line.meta.durationMs = calls[n].args.duration
\* A call with the threshold itself was written at info and one above it at warn.
C23_Witness ==
    /\ \E p \in PerformanceLines :
           /\ calls[p[1]].args.duration = PerformanceThreshold
           /\ console[p[1]][p[2]].text.level = "info"
    /\ \E p \in PerformanceLines :
           /\ calls[p[1]].args.duration > PerformanceThreshold
           /\ console[p[1]][p[2]].text.level = "warn"
           /\ "durationMs" \in DOMAIN calls[p[1]].args.metadata

\* ---- C24 ----
\* StructuredLogger.error(): the record is written at error; for an Error it
\* has error = its message and errorStack = its stack, errorCode whenever the
\* error carries a code (its code, or an AppError's errorCode) and statusCode
\* whenever it carries one; for a plain non-empty value error is that value;
\* with no error value there is no error field.
CarriedCode(error) ==
    IF "code" \in DOMAIN error.props THEN <<error.props.code>>
    ELSE IF "errorCode" \in DOMAIN error.props THEN <<error.props.errorCode>>
    ELSE <<>>
C24_ErrorNormalization ==
    \A n \in DOMAIN calls : calls[n].op = "error" =>
        \A i \in DOMAIN console[n] :
            LET line == console[n][i].text
                error == calls[n].args.error
            IN /\ line.level = "error"
               /\ IF InstanceOfError(error)
                  THEN /\ line.meta.error = error.message
                       /\ line.meta.errorStack = error.stack
                       /\ CarriedCode(error) # <<>> =>
                              /\ "errorCode" \in DOMAIN line.meta
                              /\ <<line.meta.errorCode>> = CarriedCode(error)
                       /\ "statusCode" \in DOMAIN error.props =>
                              /\ "statusCode" \in DOMAIN line.meta
                              /\ line.meta.statusCode = error.props.statusCode
                  ELSE IF TruthyValue(error)
                       THEN line.meta.error = error.value
                       ELSE "error" \notin DOMAIN line.meta

\* ---- C25 ----
\* HTTP request/response logging: a request that has passed the pre-handling
\* hook has exactly one "HTTP Request" record, at info and before every record
\* of its handler; a request whose response is finalized has, after those,
\* exactly one "HTTP Response" record, at error when the status code is 400 or
\* above and at info otherwise.
RecordsNamed(r, message) ==
    {i \in DOMAIN console[r] : console[r][i].text.message = message}
C25_RequestResponseLogging ==
    \A r \in RequestIds :
        /\ requests[r].pc # "new" =>
               /\ RecordsNamed(r, "HTTP Request") = {1}
               /\ console[r][1].text.level = "info"
        /\ requests[r].pc = "done" =>
               /\ RecordsNamed(r, "HTTP Response") = {Len(console[r])}
               /\ console[r][Len(console[r])].text.level =
                      (IF requests[r].statusCode >= 400 THEN "error" ELSE "info")
        /\ requests[r].pc # "done" => RecordsNamed(r, "HTTP Response") = {}

\* ---- C26 ----
\* Lazy stream initialization: with remote delivery enabled, a log call that
\* passes the gate while the stream is not ready starts with CreateLogGroup;
\* when CreateLogStream returns, whatever the two create calls answered,
\* logStreamReady is true, and it stays true; a call made once it is true sends
\* neither CreateLogGroup nor CreateLogStream (CreateLogGroup is only sent
\* while the flag is false, CreateLogStream only by a call that sent
\* CreateLogGroup).
Starts(c) == calls[c].pc = "idle" /\ calls'[c].pc # "idle"
SendsNow(c, cmd) == sent'[c] = Append(sent[c], cmd)
C26_LazyInitialization ==
    [][\A c \in CallIds :
          /\ (Starts(c) /\ calls'[c].op = "log" /\ ~RemoteGateClosed(calls'[c].level)
                 /\ ~logStreamReady) => sent'[c] = <<"CreateLogGroup">>
          /\ (calls[c].pc = "awaitCreateStream" /\ calls'[c].pc # "awaitCreateStream")
                 => logStreamReady'
          /\ logStreamReady => logStreamReady'
          /\ (Starts(c) /\ logStreamReady) => sent'[c] \in {<<>>, <<"PutLogEvents">>,
                                                              <<"PutMetricData">>}
          /\ SendsNow(c, "CreateLogGroup") => ~logStreamReady /\ Starts(c)
          /\ SendsNow(c, "CreateLogStream") => sent[c] = <<"CreateLogGroup">>]_vars
\* The stream was marked ready although it was not created, and a later log
\* call went straight to PutLogEvents.
C26_Witness ==
    /\ logStreamReady /\ ~sink.stream
    /\ \E c \in CallIds : calls[c].op = "log" /\ sent[c] = <<"PutLogEvents">>

\* ---- C27 ----
\* Local log order: the console line of a log call is written in the step
\* that makes the call, before the call first suspends, and no record line is
\* written at any other time; calls are made in their order, and the lines a
\* call has written are never removed.  So the record lines appear in call
\* order, whatever other calls do in between and however the remote writes
\* end.
IsPrefix(a, b) == Len(a) <= Len(b) /\ \A i \in DOMAIN a : a[i] = b[i]
NewLines(c) == {i \in DOMAIN console'[c] : i > Len(console[c])}
C27_LocalLogOrder ==
    [][\A c \in CallIds :
          /\ IsPrefix(console[c], console'[c])
          /\ (Starts(c) /\ calls'[c].op = "log") =>
                 /\ console'[c] = <<Line("log", "record", calls'[c].entry)>>
                 /\ \A d \in CallIds : d < c => console[d] # <<>> \/ calls[d].op # "log"
          /\ ~Starts(c) => \A i \in NewLines(c) : console'[c][i].kind # "record"]_vars
\* An earlier call is still waiting for PutLogEvents, another has failed to
\* send, and a later call's line is on the console.
C27_Witness ==
    \E b, c, d \in CallIds :
        /\ c < d /\ calls[c].op = "log" /\ calls[d].op = "log"
        /\ calls[c].pc = "awaitPut" /\ console[c] # <<>> /\ console[d] # <<>>
        /\ \E i \in DOMAIN console[b] : console[b][i].kind = "failed-to-send-log"

\* ---- C28 ----
\* Routing by the encryption flag: a Payment Lambda request with a body and
\* paymentData makes exactly one outbound call, to the Token Lambda when
\* encryption is the boolean true and to the Mock Backend's /resources/payment
\* for every other value, and it returns 200 with success true exactly when
\* that call succeeded.
PaymentRequests ==
    {r \in RequestIds : /\ requests[r].hook = "paymentLambda"
                        /\ requests[r].body.present
                        /\ requests[r].body.paymentData # Null}
C28_RoutingByEncryption ==
    \A r \in PaymentRequests :
        /\ Len(sent[r]) = 1
        /\ sent[r][1].url = (IF requests[r].body.encryption = <<"boolean", "true">>
                             THEN "http://localhost:3000/dev/token"
                             ELSE "http://localhost:4000/resources/payment")
        /\ requests[r].pc = "done" =>
               /\ (requests[r].statusCode = 200) <=> (requests[r].response.status = 200)
               /\ requests[r].success <=> (requests[r].statusCode = 200)
\* One request with encryption true has returned 200, another with the string
\* "true" has gone to the Mock Backend and returned an error.
C28_Witness ==
    \E r, q \in PaymentRequests :
        /\ requests[r].pc = "done" /\ requests[q].pc = "done"
        /\ requests[r].body.encryption = <<"boolean", "true">>
        /\ requests[r].statusCode = 200 /\ requests[r].success
        /\ requests[q].body.encryption = <<"string", "true">>
        /\ sent[q][1].url = ResourcesPaymentUrl /\ requests[q].statusCode >= 400

\* ---- C29 ----
\* Direct flow succeeds: a Payment Lambda request with encryption false and
\* paymentData, whose call the running Mock Backend has answered, went to
\* /resources/payment and returns status 200 with the backend's result.
C29_DirectFlowSucceeds ==
    \A r \in PaymentRequests :
        (/\ requests[r].body.encryption = <<"boolean", "false">>
         /\ requests[r].pc = "done"
         /\ requests[r].response # ConnectionRefused) =>
            /\ sent[r] # <<>> /\ sent[r][1].url = ResourcesPaymentUrl
            /\ requests[r].statusCode = 200 /\ requests[r].success

\* ---- C30 ----
\* Token Lambda step order: in every execution the OAuth token fetch comes
\* first, the JOSE signing starts only after the fetch has succeeded, and the
\* payment call is made only after the signing, with the access token the
\* fetch returned as its Bearer token; once a step has failed the execution
\* makes no further call, signs nothing and ends with an error response.
TokenRequests == {r \in RequestIds : requests[r].hook = "tokenLambda"}
Failed(r) == requests[r].statusCode >= 400
C30_TokenLambdaStepOrder ==
    [][\A r \in RequestIds : requests'[r].hook = "tokenLambda" =>
          /\ Len(sent'[r]) <= 2
          /\ Len(sent'[r]) >= 1 => sent'[r][1].url = "http://localhost:4000/oauth/token"
          /\ (requests[r].pc # "awaitSign" /\ requests'[r].pc = "awaitSign") =>
                 /\ Len(sent[r]) = 1 /\ sent'[r] = sent[r]
                 /\ requests'[r].response.status = 200
                 /\ ~requests[r].signed
          /\ (requests[r].signed # requests'[r].signed) => requests[r].pc = "awaitSign"
          /\ Len(sent'[r]) > Len(sent[r]) /\ Len(sent[r]) = 1 =>
                 /\ requests[r].pc = "awaitSign" /\ requests'[r].signed
                 /\ sent'[r][2].url = "http://localhost:4000/resources/payment"
                 /\ sent'[r][2].authorization =
                        <<"Bearer", authRoutes(r, sent[r][1]).access_token>>
          /\ (requests'[r].statusCode >= 400 /\ requests[r].statusCode = 0) =>
                 /\ sent'[r] = sent[r] /\ requests'[r].signed = requests[r].signed
                 /\ requests'[r].pc = "awaitMetric"
          /\ requests[r].statusCode >= 400 =>
                 /\ sent'[r] = sent[r] /\ requests'[r].signed = requests[r].signed
                 /\ requests'[r].statusCode = requests[r].statusCode
                 /\ requests'[r].pc \in {requests[r].pc, "done"}
                 /\ ~requests'[r].success]_vars
\* One execution has made the three steps and returned 200; another has
\* stopped after the fetch and returned an error.
C30_Witness ==
    \E r, q \in TokenRequests :
        /\ requests[r].pc = "done" /\ requests[r].statusCode = 200
        /\ Len(sent[r]) = 2 /\ sent[r][2].authorization = Bearer(JwtSign(r))
        /\ requests[q].pc = "done" /\ Failed(q) /\ Len(sent[q]) = 1
        /\ requests[q].response = ConnectionRefused

SentBy(cmd) == {<<c, i>> \in CallIds \X (1..8) : i \in DOMAIN sent[c] /\ sent[c][i] = cmd}
C32_OneStreamCreation ==
    /\ Cardinality(SentBy("CreateLogGroup")) <= 1
    /\ Cardinality(SentBy("CreateLogStream")) <= 1

\* ---- C33 ----
\* Payment outcome metrics: with remote reporting enabled, a Payment Lambda
\* invocation that has returned has emitted exactly one of PaymentSuccess and
\* PaymentError, then exactly one PaymentDuration, as its last two
\* datapoints; PaymentSuccess exactly when the response status is 200; and an
\* invocation whose downstream call failed has emitted exactly one
\* TokenLambdaCallError or MockBackendCallError, before PaymentError.
MetricCount(r, names) ==
    Cardinality({i \in DOMAIN requests[r].metrics : requests[r].metrics[i] \in names})
C33_PaymentOutcomeMetrics ==
    \A r \in RequestIds :
        (requests[r].hook = "paymentLambda" /\ requests[r].pc = "done") =>
            LET m == requests[r].metrics
                n == Len(m)
                callFailed == sent[r] # <<>> /\ requests[r].response.status # 200
            IN /\ MetricCount(r, {"PaymentSuccess", "PaymentError"}) = 1
               /\ MetricCount(r, {"PaymentDuration"}) = 1
               /\ n >= 2 /\ m[n] = "PaymentDuration"
               /\ m[n - 1] = (IF requests[r].statusCode = 200
                              THEN "PaymentSuccess" ELSE "PaymentError")
               /\ MetricCount(r, {"TokenLambdaCallError", "MockBackendCallError"}) =
                      (IF callFailed THEN 1 ELSE 0)
               /\ callFailed => /\ n = 3
                                /\ m[1] = (IF sent[r][1].url = "http://localhost:3000/dev/token"
                                           THEN "TokenLambdaCallError"
                                           ELSE "MockBackendCallError")
\* One invocation has succeeded, another has failed at its downstream call.
C33_Witness ==
    \E r, q \in RequestIds :
        /\ requests[r].hook = "paymentLambda" /\ requests[r].pc = "done"
        /\ requests[r].metrics = <<"TokenLambdaCallSuccess", "PaymentSuccess", "PaymentDuration">>
        /\ requests[q].hook = "paymentLambda" /\ requests[q].pc = "done"
        /\ requests[q].metrics = <<"MockBackendCallError", "PaymentError", "PaymentDuration">>

\* ---- C34 ----
\* wrap(handler) returns a function that never rejects: a call whose handler
\* resolved returns the handler's result unchanged; a call whose handler
\* rejected, with any value, has logged one uncaught error, attempted one
\* LambdaHandlerError metric and returned handleError's error response.
WrapCalls == {c \in DOMAIN calls : calls[c].op = "wrap" /\ calls[c].pc = "done"}
C34_WrapNeverRejects ==
    \A c \in WrapCalls :
        /\ ~calls[c].rejected
        /\ calls[c].settled = "resolved" =>
               /\ calls[c].result = HandlerResult
               /\ calls[c].logged = <<>> /\ calls[c].metrics = <<>>
        /\ calls[c].settled = "rejected" =>
               /\ Count(calls[c].logged, "Lambda handler uncaught error") = 1
               /\ calls[c].metrics = <<"LambdaHandlerError">>
               /\ calls[c].result.statusCode >= 400
               /\ calls[c].result.body.status = calls[c].result.statusCode

\* ---- C35 ----
\* handleError classifies by first match in a fixed order: validation flag
\* or statusCode 400 gives 400; an AppError with statusCode 422 gives 422; code
\* ECONNREFUSED, ENOTFOUND or ETIMEDOUT gives 503; an upstream response status
\* of 500 or above gives 503; a JWT error name or code, or an AppError with
\* statusCode 401, gives 401; any other AppError gives its own statusCode;
\* everything else gives 500.  The status field of the body equals the
\* returned statusCode.
Handled == {c \in WrapCalls : calls[c].settled = "rejected" /\ ~calls[c].rejected}
IsAppError(e) == e.kind = "Error" /\ "name" \in DOMAIN e.props /\ e.props.name = "AppError"
StatusIs(e, n) == e.kind = "Error" /\ "statusCode" \in DOMAIN e.props /\ e.props.statusCode = n
CodeIn(e, codes) == e.kind = "Error" /\ "code" \in DOMAIN e.props /\ e.props.code \in codes
NameIn(e, names) == e.kind = "Error" /\ "name" \in DOMAIN e.props /\ e.props.name \in names
ExpectedStatus(e) ==
    IF (e.kind = "Error" /\ "isValidationError" \in DOMAIN e.props) \/ StatusIs(e, 400) THEN 400
    ELSE IF IsAppError(e) /\ StatusIs(e, 422) THEN 422
    ELSE IF CodeIn(e, {"ECONNREFUSED", "ENOTFOUND", "ETIMEDOUT"}) THEN 503
    ELSE IF e.kind = "Error" /\ "response" \in DOMAIN e.props /\ e.props.response.status >= 500
    THEN 503
    ELSE IF \/ NameIn(e, {"JsonWebTokenError", "TokenExpiredError"})
            \/ CodeIn(e, {"ERR_JWT_EXPIRED", "ERR_JWS_SIGNATURE_VERIFICATION_FAILED"})
            \/ IsAppError(e) /\ StatusIs(e, 401)
    THEN 401
    ELSE IF IsAppError(e) THEN e.props.statusCode
    ELSE 500
C35_ClassificationOrder ==
    \A c \in Handled :
        /\ calls[c].result.statusCode = ExpectedStatus(calls[c].error)
        /\ calls[c].result.body.status = calls[c].result.statusCode
\* Errors that match two classes have been answered by the earlier one, and an
\* AppError of no listed class by its own status.
C35_Witness ==
    \E c, d \in Handled :
        /\ CodeIn(calls[c].error, {"ETIMEDOUT"}) /\ calls[c].result.statusCode = 400
        /\ IsAppError(calls[d].error) /\ calls[d].result.statusCode = 409

\* ---- C37 ----
\* No internal detail leaks on unknown errors: outside NODE_ENV=development,
\* the response handleError builds for an error of no known class is the 500
\* response with the fixed message, never the error's own; the Mock Backend's
\* global error handler always answers 500 with { error: "Internal Server
\* Error" }; and two such errors that differ only in their message get
\* identical responses.
UnknownError(e) == ExpectedStatus(e) = 500 /\ ~IsAppError(e)
SameButMessage(e, f) ==
    /\ e.kind = f.kind
    /\ e.kind = "Error" => e.props = f.props
Answered == {c \in DOMAIN calls : calls[c].pc = "done" /\ calls[c].settled = "rejected"
                                  /\ ~calls[c].rejected}
EventsOf(op) == {i \in DOMAIN calls : calls[i].op = op}
C36_Safety ==
    /\ requests.unhandledRejection <= 1 /\ requests.uncaughtException <= 1
    /\ \A i \in EventsOf("uncaughtException") :
          calls[i].error.kind # "none" =>
              calls[i].logged = 1 /\ calls[i].metrics = <<"UncaughtException">>
    /\ \A i \in EventsOf("unhandledRejection") :
          calls[i].logged = 1 /\ calls[i].metrics = <<"UnhandledRejection">>
    /\ requests.exitCode \in {NotExited, 1}
    /\ requests.exitCode = 1 => EventsOf("uncaughtException") # {}
C39_CoreFieldsAreTheCalls ==
    \A c \in SeqCallIds : calls[c].op = "log" =>
        /\ calls[c].entry.level = calls[c].level
        /\ calls[c].entry.message = MessageOf(c)

\* ---- C38 ----
\* Mock Backend authorization: a POST /resources/payment is processed only if
\* its Bearer token verified, and is answered 401 otherwise; a POST
\* /oauth/token is answered with an access token exactly when client_id is
\* "poc-client" and client_secret is "poc-secret", and with 401 and no token
\* otherwise.
Replied(route) ==
    {r \in RequestIds : requests[r].route = route /\ requests[r].pc = "reply"}
C38_ResourcesAuthorized ==
    \A r \in RequestIds : requests[r].route = "/resources/payment" =>
        /\ requests[r].pc \in {"handler", "awaitVerify"} => JwtVerify(requests[r].authorization)
        /\ Processed(r) => JwtVerify(requests[r].authorization)
        /\ ~JwtVerify(requests[r].authorization) =>
               requests[r].pc = "reply" /\ requests[r].statusCode = 401
               /\ requests[r].logged = 0
C38_TokenIssued ==
    \A r \in Replied("/oauth/token") :
        IF requests[r].client_id = "poc-client" /\ requests[r].client_secret = "poc-secret"
        THEN requests[r].statusCode = 200 /\ requests[r].access_token # Null
        ELSE requests[r].statusCode = 401 /\ requests[r].access_token = Null
C38_BackendAuthorization == C38_ResourcesAuthorized /\ C38_TokenIssued
====
